---- MODULE Spec2Model ----
(***************************************************************************)
(* Model of the tRPC Redis cache middleware: key derivation, the call      *)
(* interception sequence of createCacheMiddleware, invalidateCache, the    *)
(* RedisConnectionFactory singletons and the serialization helpers.        *)
(***************************************************************************)
EXTENDS Integers, Sequences, FiniteSets, TLC

VARIABLES
    cfg,            \* validatedConfig closed over by the middleware
    outage,         \* TRUE: every backend operation throws
    upstashStore,   \* entries held by the native (Upstash) store
    redisStore,     \* entries held by the string (standard Redis) store
    upstashClient,  \* RedisConnectionFactory.upstashRedisClient is set
    stdClient,      \* standardRedisClient / connectPromise: none, connecting, ready
    calls,          \* one record per in-flight or finished middleware call
    inval,          \* the in-flight or finished invalidateCache call
    clients,        \* how many operations the callers keep in flight at once
    started,        \* number of middleware calls made so far
    built,          \* what createCacheMiddleware(config) gave: a middleware or an error
    derived,        \* the last createCacheKey call of the built middleware
    standardRedisClient,  \* RedisConnectionFactory.standardRedisClient (0: null)
    connectPromise,       \* RedisConnectionFactory.connectPromise (0: null)
    upstashRedisClient,   \* RedisConnectionFactory.upstashRedisClient (0: null)
    conn,           \* state of connect() of every client created so far
    gets,           \* the getStandardRedis / getUpstashRedis calls of each caller
    closing,        \* the closeConnections call
    created,        \* number of clients constructed so far
    history,        \* what the factory has handed out since the last close
    env,            \* what the callers and next() may do in this behaviour
    subject,        \* the value handed to the serialization guard
    sanitized,      \* what sanitizeForCache(subject) returned or threw
    stringified,    \* what the safeStringify(subject) calls returned, in order
    serializable    \* what isSerializable(subject) answered

\* state of the construction / key derivation view
keyVars == <<built, derived>>

\* state of the RedisConnectionFactory view
factoryVars == <<standardRedisClient, connectPromise, upstashRedisClient,
                 conn, gets, closing, created, history>>

\* state of the middleware view
cacheVars == <<cfg, outage, upstashStore, redisStore, upstashClient, stdClient,
               calls, inval, clients, started, env>>

\* state of the serialization guard view
serVars == <<subject, sanitized, stringified, serializable>>

vars == <<cacheVars, keyVars, factoryVars, serVars>>

(***************************************************************************)
(* JavaScript values.                                                      *)
(***************************************************************************)
Undef == [t |-> "undef"]
Null == [t |-> "null"]
Num(n) == [t |-> "num", n |-> n]
Str(s) == [t |-> "str", s |-> s]
Bool(b) == [t |-> "bool", b |-> b]
Obj(f) == [t |-> "obj", f |-> f]
Arr(e) == [t |-> "arr", e |-> e]
Inst(f) == [t |-> "inst", f |-> f]
Fn == [t |-> "fn"]
Sym == [t |-> "sym"]
NaN == [t |-> "nan"]
DateOf(iso) == [t |-> "date", iso |-> iso]
ErrVal(src, n) == [t |-> "err", src |-> src, n |-> n]

\* A reference to an object with identity.  Obj, Arr and Inst values stand for
\* objects that occur once; an object that is reachable along several paths,
\* or from itself, is an entry of Heap and occurs as Ref(id).
Ref(id) == [t |-> "ref", id |-> id]

\* 1: an object that holds itself; 2: the same behind a function-valued
\* field; 3: an acyclic object that a value may hold twice
Heap ==
    [id \in {1, 2, 3} |->
        CASE id = 1 -> Obj(<< <<"self", Ref(1)>> >>)
          [] id = 2 -> Obj(<< <<"format", Fn>>, <<"self", Ref(2)>> >>)
          [] id = 3 -> Obj(<< <<"id", Num(1)>> >>)]

Cyc == Ref(1)

\* a hit test that accepts only the value `true`
Truthy_OnlyTrue(v) == v.t = "bool" /\ v.b

\* JavaScript truthiness, as used by `if (cachedData)` and `input ? ... : ''`
Truthy(v) ==
    CASE v.t = "undef" -> FALSE
      [] v.t = "null" -> FALSE
      [] v.t = "num" -> v.n # 0
      [] v.t = "nan" -> FALSE
      [] v.t = "str" -> v.s # ""
      [] v.t = "bool" -> v.b
      [] OTHER -> TRUE

(***************************************************************************)
(* JSON.stringify.  The result is a string, undefined (for undefined and   *)
(* functions) or a thrown TypeError (circular structure).                  *)
(***************************************************************************)
JStr(s) == [k |-> "str", s |-> s]
JUndef == [k |-> "undef", s |-> ""]
JThrow == [k |-> "throw", s |-> ""]

RECURSIVE JSONStringifyIn(_, _)
RECURSIVE StringifyFields(_, _, _, _)
RECURSIVE StringifyElems(_, _, _)

\* fields f[i..], `sep` is "" before the first emitted field and "," after;
\* `stack` holds the identified objects that are being serialized
StringifyFields(f, i, sep, stack) ==
    IF i > Len(f) THEN JStr("")
    ELSE LET head == JSONStringifyIn(f[i][2], stack)
         IN  IF head.k = "throw" THEN JThrow
             ELSE IF head.k = "undef" THEN StringifyFields(f, i + 1, sep, stack)
             ELSE LET rest == StringifyFields(f, i + 1, ",", stack)
                  IN  IF rest.k = "throw" THEN JThrow
                      ELSE JStr(sep \o "\"" \o f[i][1] \o "\":" \o head.s \o rest.s)

StringifyElems(e, i, stack) ==
    IF i > Len(e) THEN JStr("")
    ELSE LET head == JSONStringifyIn(e[i], stack)
             rest == StringifyElems(e, i + 1, stack)
         IN  IF head.k = "throw" \/ rest.k = "throw" THEN JThrow
             ELSE JStr((IF i > 1 THEN "," ELSE "")
                       \o (IF head.k = "undef" THEN "null" ELSE head.s)
                       \o rest.s)

JSONStringifyIn(v, stack) ==
    CASE v.t = "undef" -> JUndef
      [] v.t = "fn" -> JUndef
      [] v.t = "sym" -> JUndef
      [] v.t = "null" -> JStr("null")
      [] v.t = "num" -> JStr(ToString(v.n))
      [] v.t = "nan" -> JStr("null")
      [] v.t = "str" -> JStr("\"" \o v.s \o "\"")
      [] v.t = "bool" -> JStr(IF v.b THEN "true" ELSE "false")
      [] v.t = "date" -> JStr("\"" \o v.iso \o "\"")
      [] v.t = "ref" ->
            IF v.id \in stack THEN JThrow
            ELSE JSONStringifyIn(Heap[v.id], stack \cup {v.id})
      [] v.t = "arr" ->
            LET body == StringifyElems(v.e, 1, stack)
            IN  IF body.k = "throw" THEN JThrow ELSE JStr("[" \o body.s \o "]")
      [] v.t \in {"obj", "inst"} ->
            LET body == StringifyFields(v.f, 1, "", stack)
            IN  IF body.k = "throw" THEN JThrow ELSE JStr("{" \o body.s \o "}")
      [] OTHER -> JStr("{}")

JSONStringify(v) == JSONStringifyIn(v, {})

\* a template literal that leaves the interpolated text out
TemplateOf_Blank(j) == ""

\* a template literal `${x}` of a JSON.stringify result
TemplateOf(j) == IF j.k = "undef" THEN "undefined" ELSE j.s


(***************************************************************************)
(* Serialization guard (utils/serialization).                              *)
(***************************************************************************)
\* isSerializable answers true or false, or never answers: a recursion that
\* re-enters an object it is still examining ends in a RangeError (maximum
\* call stack size exceeded)
SerTrue == "true"
SerFalse == "false"
SerOverflow == "overflow"

\* the value a RangeError thrown by the guard stands for
StackOverflow == [t |-> "thrown", e |-> "RangeError"]

\* Object.values of the fields of a record
ValuesOf(f) == [i \in 1..Len(f) |-> f[i][2]]

RECURSIVE isSerializableIn(_, _)
RECURSIVE EverySerializable(_, _, _)

\* Array.prototype.every(isSerializable): stops at the first element that
\* is not serializable
EverySerializable(vals, i, stack) ==
    IF i > Len(vals) THEN SerTrue
    ELSE LET head == isSerializableIn(vals[i], stack)
         IN  IF head = SerTrue THEN EverySerializable(vals, i + 1, stack)
             ELSE head

\* `stack` holds the identified objects whose examination is in progress
isSerializableIn(v, stack) ==
    CASE v.t \in {"undef", "null"} -> SerTrue
      [] v.t \in {"num", "nan", "str", "bool"} -> SerTrue
      [] v.t = "date" -> SerTrue
      [] v.t = "ref" ->
            IF v.id \in stack THEN SerOverflow
            ELSE isSerializableIn(Heap[v.id], stack \cup {v.id})
      [] v.t = "arr" -> EverySerializable(v.e, 1, stack)
      [] v.t = "obj" -> EverySerializable(ValuesOf(v.f), 1, stack)
      [] OTHER -> SerFalse

isSerializable(v) == isSerializableIn(v, {})

\* a projection that hands every value back as it is
sanitizeForCache_Identity(v) == v

\* a leaf projection that keeps the leaf
sanitizeLeaf_Keep(v) == v

\* the projection of a value that is neither an array nor an object
sanitizeLeaf(v) == Null

RECURSIVE sanitizeIn(_, _)

\* an entry cleaner that blanks every entry
sanitizeEntry_Null(value, stack) == Null

\* the value stored under one key of the clean copy
sanitizeEntry(value, stack) ==
    IF isSerializable(value) = SerTrue THEN value
    ELSE sanitizeIn(value, stack)

\* `stack` holds the identified objects whose projection is in progress
sanitizeIn(v, stack) ==
    LET o == IF v.t = "ref" THEN Heap[v.id] ELSE v
        inner == IF v.t = "ref" THEN stack \cup {v.id} ELSE stack
        ser == isSerializable(v)
    IN  IF v.t = "ref" /\ v.id \in stack THEN StackOverflow
        ELSE IF ser = SerOverflow THEN StackOverflow
        ELSE IF ser = SerTrue THEN v
        ELSE CASE o.t = "arr" ->
                    LET items == [i \in 1..Len(o.e) |-> sanitizeIn(o.e[i], inner)]
                    IN  IF \E i \in 1..Len(o.e) : items[i] = StackOverflow
                        THEN StackOverflow
                        ELSE Arr(items)
               [] o.t \in {"obj", "inst", "err"} ->
                    LET f == IF o.t = "err" THEN << >> ELSE o.f
                        clean == [i \in 1..Len(f) |->
                                    <<f[i][1], sanitizeEntry(f[i][2], inner)>>]
                    IN  IF \E i \in 1..Len(f) : clean[i][2] = StackOverflow
                        THEN StackOverflow
                        ELSE Obj(clean)
               [] OTHER -> sanitizeLeaf(v)

sanitizeForCache(v) == sanitizeIn(v, {})

(***************************************************************************)
(* safeStringify: JSON.stringify with a replacer that remembers, in a      *)
(* WeakSet created by the call, every object it has been handed.           *)
(***************************************************************************)
CircularReference == "\"[Circular Reference]\""

\* a set that remembers nothing
seenAdd_Forgets(seen, id) == seen

\* seen.add(val)
seenAdd(seen, id) == seen \cup {id}

RECURSIVE safeIn(_, _, _)
RECURSIVE SafeFields(_, _, _, _, _)
RECURSIVE SafeElems(_, _, _, _)

\* the walk of JSON.stringify over fields f[i..]; `seen` is the replacer's
\* set as the walk reaches the field, `stack` the objects JSON.stringify is
\* inside of (its own circularity check)
SafeFields(f, i, sep, seen, stack) ==
    IF i > Len(f) THEN [j |-> JStr(""), seen |-> seen]
    ELSE LET head == safeIn(f[i][2], seen, stack)
         IN  IF head.j.k = "throw" THEN [j |-> JThrow, seen |-> head.seen]
             ELSE IF head.j.k = "undef"
             THEN SafeFields(f, i + 1, sep, head.seen, stack)
             ELSE LET rest == SafeFields(f, i + 1, ",", head.seen, stack)
                  IN  IF rest.j.k = "throw" THEN rest
                      ELSE [j |-> JStr(sep \o "\"" \o f[i][1] \o "\":"
                                       \o head.j.s \o rest.j.s),
                            seen |-> rest.seen]

SafeElems(e, i, seen, stack) ==
    IF i > Len(e) THEN [j |-> JStr(""), seen |-> seen]
    ELSE LET head == safeIn(e[i], seen, stack)
         IN  IF head.j.k = "throw" THEN [j |-> JThrow, seen |-> head.seen]
             ELSE LET rest == SafeElems(e, i + 1, head.seen, stack)
                  IN  IF rest.j.k = "throw" THEN rest
                      ELSE [j |-> JStr((IF i > 1 THEN "," ELSE "")
                                       \o (IF head.j.k = "undef" THEN "null"
                                           ELSE head.j.s)
                                       \o rest.j.s),
                            seen |-> rest.seen]

\* Objects that occur once can never be handed to the replacer twice, so only
\* identified objects are entered in `seen`.
safeIn(v, seen, stack) ==
    CASE v.t = "ref" ->
            IF v.id \in seen THEN [j |-> JStr(CircularReference), seen |-> seen]
            ELSE IF v.id \in stack THEN [j |-> JThrow, seen |-> seen]
            ELSE safeIn(Heap[v.id], seenAdd(seen, v.id), stack \cup {v.id})
      [] v.t = "arr" ->
            LET body == SafeElems(v.e, 1, seen, stack)
            IN  IF body.j.k = "throw" THEN body
                ELSE [j |-> JStr("[" \o body.j.s \o "]"), seen |-> body.seen]
      [] v.t \in {"obj", "inst"} ->
            LET body == SafeFields(v.f, 1, "", seen, stack)
            IN  IF body.j.k = "throw" THEN body
                ELSE [j |-> JStr("{" \o body.j.s \o "}"), seen |-> body.seen]
      [] OTHER -> [j |-> JSONStringifyIn(v, stack), seen |-> seen]

\* the string, undefined when JSON.stringify yields no text, null when it
\* throws
safeStringify(value) ==
    LET r == safeIn(value, {}, {}).j
    IN  CASE r.k = "str" -> Str(r.s)
          [] r.k = "undef" -> Undef
          [] OTHER -> Null

(***************************************************************************)
(* Results of the wrapped operation next(): tRPC MiddlewareResult records. *)
(***************************************************************************)
OkResult(d) ==
    Obj(<< <<"ok", Bool(TRUE)>>, <<"marker", Str("middlewareMarker")>>,
           <<"data", d>>, <<"error", Null>> >>)

TRPCError == Inst(<< <<"code", Str("INTERNAL_SERVER_ERROR")>> >>)

FailResult ==
    Obj(<< <<"ok", Bool(FALSE)>>, <<"marker", Str("middlewareMarker")>>,
           <<"data", Null>>, <<"error", TRPCError>> >>)

\* the `ok` field of a MiddlewareResult-shaped value
ResultOk(v) == v.t = "obj" /\ Len(v.f) > 0 /\ v.f[1] = <<"ok", Bool(TRUE)>>

Data == {Obj(<< <<"id", Num(1)>> >>),
         Obj(<< <<"id", Num(1)>>, <<"format", Fn>> >>)}
OpResults == {OkResult(d) : d \in Data} \cup {FailResult}

\* results of other shapes: next() is typed () => Promise<unknown>
FalsyResults == {Num(0), Bool(FALSE), Str("")}
PrimitiveResults ==
    {Obj(<< <<"n", Num(1)>>, <<"tags", Arr(<<Str("a"), Bool(TRUE)>>)>> >>),
     Obj(<< <<"n", NaN>> >>)}
CyclicResults == {OkResult(Cyc)}
WideResults == FalsyResults \cup PrimitiveResults \cup CyclicResults

(***************************************************************************)
(* JSON.parse, as the inverse of JSON.stringify on the JSON documents the  *)
(* string store can hold; any other text throws a SyntaxError.             *)
(***************************************************************************)
\* the JSON document that the text of a value denotes (Undef: no text)
RECURSIVE JsonValue(_)
JsonValue(v) ==
    CASE v.t \in {"null", "num", "str", "bool"} -> v
      [] v.t = "nan" -> Null
      [] v.t = "date" -> Str(v.iso)
      [] v.t \in {"undef", "fn", "sym"} -> Undef
      [] v.t = "ref" -> JsonValue(Heap[v.id])
      [] v.t = "arr" ->
            Arr([i \in 1..Len(v.e) |->
                    IF JsonValue(v.e[i]) = Undef THEN Null
                    ELSE JsonValue(v.e[i])])
      [] v.t \in {"obj", "inst"} ->
            LET Kept(p) == JsonValue(p[2]) # Undef
                kept == SelectSeq(v.f, Kept)
            IN  Obj([i \in 1..Len(kept) |->
                        <<kept[i][1], JsonValue(kept[i][2])>>])
      [] OTHER -> Obj(<< >>)

JsonDocs ==
    {JsonValue(sanitizeForCache(r)) :
        r \in {x \in OpResults \cup WideResults :
                  sanitizeForCache(x) # StackOverflow}}

JSONParse(s) ==
    IF \E d \in JsonDocs : JSONStringify(d) = JStr(s)
    THEN [k |-> "ok", v |-> CHOOSE d \in JsonDocs : JSONStringify(d) = JStr(s)]
    ELSE [k |-> "throw", v |-> Null]

(***************************************************************************)
(* Cache configuration (CacheConfig, defaultCacheConfig,                   *)
(* createCacheMiddleware's validatedConfig).                               *)
(***************************************************************************)
defaultCacheConfig ==
    [ttl |-> Num(60), useUpstash |-> TRUE, userSpecific |-> TRUE,
     globalCache |-> FALSE, debug |-> FALSE, getCacheKey |-> "none"]

\* { ...defaultCacheConfig, ...cacheConfigSchema.parse(config ?? {}) }
validatedConfig(config) ==
    [f \in DOMAIN defaultCacheConfig |->
        IF f \in DOMAIN config THEN config[f] ELSE defaultCacheConfig[f]]

\* configurations handed to createCacheMiddleware
UserConfigs ==
    { [useUpstash |-> u, globalCache |-> g, userSpecific |-> s] :
        u \in BOOLEAN, g \in BOOLEAN, s \in BOOLEAN }
    \cup { [useUpstash |-> u, ttl |-> t] : u \in BOOLEAN, t \in {Undef, Num(30)} }
    \cup { [useUpstash |-> u, getCacheKey |-> k] :
             u \in BOOLEAN, k \in {"custom", "throws"} }

(***************************************************************************)
(* Key derivation (createCacheKey).                                        *)
(***************************************************************************)
KStr(s) == [k |-> "str", s |-> s]
KThrow == [k |-> "throw", s |-> ""]

\* an id without the "anonymous" default: the template prints `undefined`
userIdOf_NoDefault(caller) ==
    IF caller.t \in {"undef", "null"} THEN "undefined" ELSE caller.s

\* a key that leaves the caller's id out
userIdOf_Ignored(caller) == "anonymous"

\* an id defaulted with ||: the empty id becomes "anonymous" as well
userIdOf_EmptyIsAnonymous(caller) ==
    IF caller.t \in {"undef", "null"} \/ caller = Str("") THEN "anonymous"
    ELSE caller.s

\* ctx.session?.user?.id ?? 'anonymous'
userIdOf(caller) == IF caller.t \in {"undef", "null"} THEN "anonymous" ELSE caller.s

\* the getCacheKey functions a configuration may carry
customCacheKey(fn, path, input) ==
    IF fn = "throws" THEN KThrow
    ELSE LET j == JSONStringify(input)
         IN  IF j.k = "throw" THEN KThrow
             ELSE KStr("custom:" \o path \o ":" \o TemplateOf(j))

\* a derivation that tries the caller-scoped rule before the global rule
createCacheKey_UserFirst(path, input, caller, config) ==
    LET j == IF Truthy(input) THEN JSONStringify(input) ELSE JStr("")
    IN  IF config.getCacheKey # "none"
        THEN customCacheKey(config.getCacheKey, path, input)
        ELSE IF j.k = "throw" THEN KThrow
        ELSE IF config.userSpecific
        THEN KStr("trpc:user:" \o path \o ":" \o userIdOf(caller)
                  \o ":" \o TemplateOf(j))
        ELSE IF config.globalCache
        THEN KStr("trpc:global:" \o path \o ":" \o TemplateOf(j))
        ELSE KStr("trpc:" \o path \o ":" \o TemplateOf(j))

\* a derivation that tries the global rule before the custom key function
createCacheKey_GlobalFirst(path, input, caller, config) ==
    LET j == IF Truthy(input) THEN JSONStringify(input) ELSE JStr("")
    IN  IF config.globalCache
        THEN IF j.k = "throw" THEN KThrow
             ELSE KStr("trpc:global:" \o path \o ":" \o TemplateOf(j))
        ELSE IF config.getCacheKey # "none"
        THEN customCacheKey(config.getCacheKey, path, input)
        ELSE IF j.k = "throw" THEN KThrow
        ELSE IF config.userSpecific
        THEN KStr("trpc:user:" \o path \o ":" \o userIdOf(caller)
                  \o ":" \o TemplateOf(j))
        ELSE KStr("trpc:" \o path \o ":" \o TemplateOf(j))

createCacheKey(path, input, caller, config) ==
    IF config.getCacheKey # "none"
    THEN customCacheKey(config.getCacheKey, path, input)
    ELSE LET j == IF Truthy(input) THEN JSONStringify(input) ELSE JStr("")
             inputString == TemplateOf(j)
         IN  IF j.k = "throw" THEN KThrow
             ELSE IF config.globalCache
                  THEN KStr("trpc:global:" \o path \o ":" \o inputString)
             ELSE IF config.userSpecific
                  THEN KStr("trpc:user:" \o path \o ":" \o userIdOf(caller)
                            \o ":" \o inputString)
             ELSE KStr("trpc:" \o path \o ":" \o inputString)

(***************************************************************************)
(* Call contexts drawn by the callers.                                     *)
(***************************************************************************)
Routes == {"p"}
Inputs == {Obj(<< <<"q", Num(1)>> >>), Cyc}
Callers == {Undef, Str(""), Str("anonymous"), Str("u1")}
Calls == {1, 2}


(***************************************************************************)
(* Records of the state.                                                   *)
(***************************************************************************)
NoOutcome == [k |-> "none", v |-> Undef]
Return(v) == [k |-> "return", v |-> v]
Throw(e) == [k |-> "throw", v |-> e]

\* errors thrown by the backend clients, by the step that raised them
AcquireError == ErrVal("backend", 1)
GetError == ErrVal("backend", 2)
SetError == ErrVal("backend", 3)
DelError == ErrVal("backend", 4)
KeyError == ErrVal("key", 0)

Ctx(path, input, caller) == [path |-> path, input |-> input, caller |-> caller]
NoCtx == Ctx("", Undef, Undef)
AllCtxs == {Ctx(path, input, caller) :
              path \in Routes, input \in Inputs, caller \in Callers}

\* the environment of the middleware in one behaviour: the results next() may
\* resolve with, the contexts the calls are made with, and whether
\* invalidateCache is called
Env(results, ctxs, invalidates) ==
    [results |-> results, ctxs |-> ctxs, invalidates |-> invalidates]

\* a middleware call that has not started; the fields below `outcome` record
\* what happened in the call and are read by the properties only
IdleCall ==
    [pc |-> "idle", ctx |-> NoCtx, key |-> "", opCalls |-> 0,
     res |-> Undef, toWrite |-> Undef, outcome |-> NoOutcome,
     ops |-> <<>>, hit |-> FALSE, hitBy |-> NoCtx, hitOk |-> FALSE,
     bfail |-> FALSE, sawOwn |-> FALSE, sawAny |-> FALSE, afterFail |-> FALSE,
     wrote |-> FALSE, found |-> Null, concurrent |-> FALSE,
     wroteAt |-> 0, no |-> 0, logs |-> {}]

IdleInval ==
    [pc |-> "idle", ctx |-> NoCtx, opts |-> [useUpstash |-> TRUE],
     key |-> "", outcome |-> NoOutcome, bfail |-> FALSE, raised |-> Undef,
     matching |-> FALSE,
     leftOwn |-> FALSE, removed |-> FALSE, midCalls |-> {}, logs |-> {}]

\* outcomes of one invocation of next(): a MiddlewareResult or a thrown error;
\* n is the number of the invocation within the middleware call
OpOutcomes(n) == {Return(r) : r \in env.results} \cup {Throw(ErrVal("op", n))}

OpFailed(out) == out.k = "throw" \/ ~ResultOk(out.v)

\* the caller's previous call had this context and its op failed: it threw, or
\* the failure-shaped result it settled with was passed through
PrevFailed(prev, ctx) ==
    /\ prev.pc = "done"
    /\ prev.ctx = ctx
    /\ prev.ops # <<>>
    /\ OpFailed(prev.ops[Len(prev.ops)])
    /\ prev.outcome = prev.ops[Len(prev.ops)]

\* whether a backend operation throws: always during an outage, else sometimes
BackendFails == IF outage THEN {TRUE} ELSE BOOLEAN

(***************************************************************************)
(* The stores: get / set / del of the two backends.                        *)
(***************************************************************************)
\* a reply of `get` that makes the entry it read persistent
getLeaves_Refresh(store, key) ==
    {IF e.key = key THEN [e EXCEPT !.ex = Undef] ELSE e : e \in store}

\* what `get` leaves of the store: it reads the entry and changes nothing
getLeaves(store, key) == store

StoreGet(store, key) ==
    IF \E e \in store : e.key = key
    THEN (CHOOSE e \in store : e.key = key).v
    ELSE Null

\* a write that leaves an entry already stored under the key in place
StoreSet_KeepFirst(store, key, v, ex, by, ok) ==
    IF \E e \in store : e.key = key THEN store
    ELSE store \cup {[key |-> key, v |-> v, ex |-> ex, by |-> by, ok |-> ok]}

\* a write that drops the expiry
StoreSet_NoExpiry(store, key, v, ex, by, ok) ==
    {e \in store : e.key # key}
        \cup {[key |-> key, v |-> v, ex |-> Undef, by |-> by, ok |-> ok]}

\* a write that sweeps every other entry out of the store
StoreSet_Sweep(store, key, v, ex, by, ok) ==
    {[key |-> key, v |-> v, ex |-> ex, by |-> by, ok |-> ok]}

\* a write that is lost
StoreSet_Lost(store, key, v, ex, by, ok) == store

StoreSet(store, key, v, ex, by, ok) ==
    {e \in store : e.key # key}
        \cup {[key |-> key, v |-> v, ex |-> ex, by |-> by, ok |-> ok]}

\* a delete that empties the store
StoreDel_All(store, key) == {}

StoreDel(store, key) == {e \in store : e.key # key}

StoreOf(useUpstash) == IF useUpstash THEN upstashStore ELSE redisStore

\* the number of the latest write among the calls on record (0: none)
LastWrite ==
    CHOOSE n \in {calls[d].wroteAt : d \in Calls} :
        \A d \in Calls : calls[d].wroteAt <= n

\* operations (middleware calls, invalidations) that have not returned yet
InFlight ==
    Cardinality({c \in Calls : calls[c].pc \notin {"idle", "done"}})
        + (IF inval.pc \in {"idle", "done"} THEN 0 ELSE 1)

\* middleware calls made in one behaviour
MaxCalls == 2

(***************************************************************************)
(* Construction and key derivation view: nothing built, no key derived.    *)
(***************************************************************************)
NoBuilt == [k |-> "none", raw |-> [debug |-> Undef], cfg |-> defaultCacheConfig]
NoDerived == [k |-> "none", ctx |-> NoCtx, key |-> KStr("")]

KeyIdle == built = NoBuilt /\ derived = NoDerived

(***************************************************************************)
(* RedisConnectionFactory view: the static fields are null, no call made.  *)
(***************************************************************************)
\* clients the factory may construct in one behaviour
MaxClients == 3
\* getStandardRedis / getUpstashRedis calls made in one behaviour
MaxGets == 4
Clients == 1..MaxClients
Getters == {1, 2}

\* a getter call that has not started; the fields below `error` record what
\* happened in the call and are read by the properties only
IdleGet ==
    [pc |-> "idle", kind |-> "none", override |-> FALSE, awaits |-> 0,
     outcome |-> "none", res |-> 0, error |-> "none",
     made |-> 0, attempts |-> 0, overlapped |-> FALSE, connected |-> FALSE,
     same |-> TRUE, afterFail |-> FALSE, closes |-> 0]

IdleClose == [pc |-> "idle", quits |-> 0, outcome |-> "none", n |-> 0]

NoHistory == [standard |-> 0, upstash |-> 0, failed |-> FALSE, gets |-> 0]

FactoryIdle ==
    /\ standardRedisClient = 0
    /\ connectPromise = 0
    /\ upstashRedisClient = 0
    /\ conn = [i \in Clients |-> "unused"]
    /\ gets = [g \in Getters |-> IdleGet]
    /\ closing = IdleClose
    /\ created = 0
    /\ history = NoHistory

(***************************************************************************)
(* Serialization guard view: no value handed over yet.                     *)
(***************************************************************************)
NotRun == [t |-> "notrun"]

SerIdle ==
    /\ subject = Undef
    /\ sanitized = NotRun
    /\ stringified = <<>>
    /\ serializable = "notrun"

(***************************************************************************)
(* getCached (utils/redis): the read of the backend adapter, given what    *)
(* `get` replied, or that it threw.  The middleware does not call it.      *)
(***************************************************************************)
getCached(useUpstash, value, fails) ==
    IF fails THEN Null
    ELSE IF useUpstash THEN value
    ELSE IF Truthy(value)
    THEN LET parsed == JSONParse(value.s)
         IN  IF parsed.k = "throw" THEN value ELSE parsed.v
    ELSE Null

(***************************************************************************)
(* Init.                                                                   *)
(***************************************************************************)
Init ==
    /\ KeyIdle
    /\ FactoryIdle
    /\ SerIdle
    /\ cfg \in {validatedConfig(u) : u \in UserConfigs}
    /\ outage \in BOOLEAN
    /\ outage => cfg \in {validatedConfig([useUpstash |-> u]) : u \in BOOLEAN}
    /\ upstashStore = {}
    /\ redisStore = {}
    /\ upstashClient = FALSE
    /\ stdClient = "none"
    /\ calls = [c \in Calls |-> IdleCall]
    /\ inval = IdleInval
    /\ clients = 1
    /\ started = 0
    /\ env = Env(OpResults, AllCtxs, TRUE)


(***************************************************************************)
(* The middleware returned by createCacheMiddleware.                       *)
(***************************************************************************)
\* a logger that emits every entry
conditionalEmits_All(debug, level) == TRUE

\* createConditionalLogger(baseLogger, options): info and warn entries are
\* passed to the base logger only if options.debug, error entries always
conditionalEmits(debug, level) == level = "error" \/ debug

\* logger[level]({ message, ... }) on a conditional logger; `logs` holds the
\* entries the base logger has received in the call
logTo(logs, debug, level, message) ==
    IF conditionalEmits(debug, level)
    THEN logs \cup {[level |-> level, message |-> message]}
    ELSE logs

\* a catch block that rethrows the error it caught
catchBlock_Rethrow(rec) == [rec EXCEPT !.pc = "done", !.outcome = Throw(GetError)]

\* a catch block that logs the error and returns nothing
catchBlock_NoFallback(rec) == [rec EXCEPT !.pc = "done", !.outcome = Return(Undef)]

\* the catch block: log the error, then `return next()`
catchBlock(rec) ==
    [rec EXCEPT !.pc = "fallback", !.opCalls = @ + 1,
                !.logs = logTo(@, cfg.debug, "error", "Redis cache error")]

\* the call returns or throws to its caller
finish(rec, out) == [rec EXCEPT !.pc = "done", !.outcome = out]

\* RedisConnectionFactory.getUpstashRedis: creates the singleton on first use
\* and throws when it cannot be constructed
getUpstashRedisThrows == ~upstashClient /\ outage

\* A call enters the middleware: key derivation, then (in the try block) the
\* client is acquired and the lookup is issued.
Start(c) ==
    /\ calls[c].pc \in {"idle", "done"}
    /\ c <= clients
    /\ InFlight < clients
    /\ started < MaxCalls
    /\ \E ctx \in env.ctxs :
         LET path == ctx.path
             input == ctx.input
             caller == ctx.caller
             k == createCacheKey(path, input, caller, cfg)
             rec == [IdleCall EXCEPT !.ctx = ctx, !.key = k.s,
                        !.no = started + 1,
                        !.afterFail = PrevFailed(calls[c], ctx),
                        !.concurrent = \E d \in Calls \ {c} :
                                          calls[d].pc \notin {"idle", "done"}]
         IN  IF k.k = "throw"
             THEN /\ calls' = [calls EXCEPT ![c] = finish(rec, Throw(KeyError))]
                  /\ UNCHANGED <<upstashClient, stdClient>>
             ELSE IF cfg.useUpstash
             THEN /\ IF getUpstashRedisThrows
                     THEN /\ calls' = [calls EXCEPT ![c] =
                                 catchBlock([rec EXCEPT !.bfail = TRUE])]
                          /\ UNCHANGED upstashClient
                     ELSE /\ calls' = [calls EXCEPT ![c] = [rec EXCEPT !.pc = "get"]]
                          /\ upstashClient' = TRUE
                  /\ UNCHANGED stdClient
             ELSE /\ IF stdClient = "none"
                     THEN /\ stdClient' = "connecting"
                          /\ calls' = [calls EXCEPT ![c] = [rec EXCEPT !.pc = "connect"]]
                     ELSE /\ calls' = [calls EXCEPT ![c] = [rec EXCEPT !.pc = "get"]]
                          /\ UNCHANGED stdClient
                  /\ UNCHANGED upstashClient
    /\ started' = started + 1
    /\ UNCHANGED <<keyVars, factoryVars, serVars, env, cfg, outage, upstashStore, redisStore, inval, clients>>

\* The reply of `get` arrives: a hit returns the cached data, a miss invokes
\* next().
Lookup(c) ==
    /\ calls[c].pc = "get"
    /\ \E fail \in BackendFails :
         LET rec == calls[c]
             store == StoreOf(cfg.useUpstash)
             cachedData == StoreGet(store, rec.key)
             seen == [rec EXCEPT
                        !.sawOwn = \E e \in store : e.by = rec.ctx /\ e.ok,
                        !.sawAny = \E e \in store :
                                      /\ e.by.path = rec.ctx.path
                                      /\ e.by.input = rec.ctx.input
                                      /\ e.ok,
                        !.found = cachedData]
             missed == [seen EXCEPT
                          !.logs = logTo(@, cfg.debug, "info", "Cache miss")]
             logged == [seen EXCEPT
                          !.logs = logTo(@, cfg.debug, "info", "Cache hit")]
             served == [logged EXCEPT
                          !.hit = TRUE,
                          !.hitBy = (CHOOSE e \in store : e.key = rec.key).by,
                          !.hitOk = (CHOOSE e \in store : e.key = rec.key).ok]
         IN  IF fail
             THEN /\ calls' = [calls EXCEPT ![c] =
                         catchBlock([rec EXCEPT !.bfail = TRUE])]
             ELSE IF Truthy(cachedData)
             THEN IF cfg.useUpstash
                  THEN /\ calls' = [calls EXCEPT ![c] =
                              finish(served, Return(cachedData))]
                  ELSE LET parsed == JSONParse(cachedData.s)
                       IN  IF parsed.k = "throw"
                           THEN /\ calls' = [calls EXCEPT ![c] = catchBlock(logged)]
                           ELSE /\ calls' = [calls EXCEPT ![c] =
                                       finish(served, Return(parsed.v))]
             ELSE /\ calls' = [calls EXCEPT ![c] =
                         [missed EXCEPT !.pc = "op", !.opCalls = @ + 1]]
    /\ upstashStore' = IF cfg.useUpstash
                       THEN getLeaves(upstashStore, calls[c].key)
                       ELSE upstashStore
    /\ redisStore' = IF cfg.useUpstash
                     THEN redisStore
                     ELSE getLeaves(redisStore, calls[c].key)
    /\ UNCHANGED <<keyVars, factoryVars, serVars, env, cfg, outage, upstashClient,
                   stdClient, inval, clients, started>>

\* next() settles on a miss: a thrown error goes to the catch block, a result
\* is sanitized and its write is issued; an error thrown by sanitizeForCache or
\* by the serialization of the write goes to the catch block as well.
OpSettle(c) ==
    /\ calls[c].pc = "op"
    /\ \E out \in OpOutcomes(calls[c].opCalls) :
         LET rec == [calls[c] EXCEPT !.ops = Append(@, out)]
             sanitizedResult == sanitizeForCache(out.v)
             text == JSONStringify(sanitizedResult)
         IN  IF out.k = "throw" \/ sanitizedResult = StackOverflow
             THEN calls' = [calls EXCEPT ![c] = catchBlock(rec)]
             ELSE IF cfg.useUpstash
             THEN calls' = [calls EXCEPT ![c] =
                     [rec EXCEPT !.pc = "set", !.res = out.v,
                                 !.toWrite = sanitizedResult]]
             ELSE IF text.k = "str"
             THEN calls' = [calls EXCEPT ![c] =
                     [rec EXCEPT !.pc = "set", !.res = out.v,
                                 !.toWrite = Str(text.s)]]
             ELSE calls' = [calls EXCEPT ![c] = catchBlock(rec)]
    /\ UNCHANGED <<keyVars, factoryVars, serVars, env, cfg, outage, upstashStore, redisStore, upstashClient,
                   stdClient, inval, clients, started>>

\* The reply of `set` / `setEx` arrives: the entry is stored with the
\* configured ttl and the original result is returned.
SetSettle(c) ==
    /\ calls[c].pc = "set"
    /\ \E fail \in BackendFails :
         LET rec == calls[c]
             store == StoreSet(StoreOf(cfg.useUpstash), rec.key, rec.toWrite,
                               cfg.ttl, rec.ctx, ResultOk(rec.res))
         IN  IF fail
             THEN /\ calls' = [calls EXCEPT ![c] =
                         catchBlock([rec EXCEPT !.bfail = TRUE])]
                  /\ UNCHANGED <<upstashStore, redisStore>>
             ELSE /\ calls' = [calls EXCEPT ![c] =
                         finish([rec EXCEPT !.wrote = TRUE,
                                    !.wroteAt = 1 + LastWrite,
                                    !.logs = logTo(@, cfg.debug, "info",
                                                   "Cache set")],
                                Return(rec.res))]
                  /\ IF cfg.useUpstash
                     THEN upstashStore' = store /\ UNCHANGED redisStore
                     ELSE redisStore' = store /\ UNCHANGED upstashStore
    /\ UNCHANGED <<keyVars, factoryVars, serVars, env, cfg, outage, upstashClient, stdClient, inval, clients, started>>

\* next() invoked by the catch block settles: its outcome is the call's.
FallbackSettle(c) ==
    /\ calls[c].pc = "fallback"
    /\ \E out \in OpOutcomes(calls[c].opCalls) :
         /\ calls' = [calls EXCEPT ![c] =
                finish([calls[c] EXCEPT !.ops = Append(@, out)], out)]
    /\ UNCHANGED <<keyVars, factoryVars, serVars, env, cfg, outage, upstashStore, redisStore, upstashClient,
                   stdClient, inval, clients, started>>


(***************************************************************************)
(* invalidateCache.                                                        *)
(***************************************************************************)
\* { ...defaultOptions, ...options }
invalidateConfig(options) ==
    [useUpstash |-> options.useUpstash, globalCache |-> options.globalCache,
     userSpecific |-> options.userSpecific, getCacheKey |-> "none"]

\* session: config.userId ? { user: { id: config.userId } } : undefined
mockCtx(userId) == IF Truthy(userId) THEN userId ELSE Undef

defaultOptions == [useUpstash |-> TRUE, globalCache |-> FALSE, userSpecific |-> TRUE]

\* options handed to invalidateCache: the middleware's backend and scope flags,
\* or none of them (the defaults apply), each with any caller id
InvalOptions ==
    { [useUpstash |-> o.useUpstash, globalCache |-> o.globalCache,
       userSpecific |-> o.userSpecific, userId |-> id] :
        o \in {defaultOptions,
                [f \in DOMAIN defaultOptions |-> cfg[f]]},
        id \in Callers }

\* invalidateCache returns or throws to its caller
finishInval(rec, out) ==
    [IdleInval EXCEPT !.pc = "done", !.outcome = out, !.bfail = rec.bfail,
                      !.raised = rec.raised,
                      !.matching = rec.matching, !.leftOwn = rec.leftOwn,
                      !.removed = rec.removed, !.midCalls = rec.midCalls,
                      !.logs = rec.logs]

\* a catch block that logs the error and does not rethrow it
invalCatch_Swallow(rec, error) ==
    finishInval([rec EXCEPT !.bfail = TRUE, !.raised = error,
                    !.logs = logTo(@, FALSE, "error", "Cache invalidation error")],
                Return(Undef))

\* invalidateCache's catch block: log the error, then `throw error`; its
\* logger is createConditionalLogger(loggerService), built without options
invalCatch(rec, error) ==
    finishInval([rec EXCEPT !.bfail = TRUE, !.raised = error,
                    !.logs = logTo(@, FALSE, "error", "Cache invalidation error")],
                Throw(error))

\* the options name the middleware's backend and scope flags
matchingOptions(options) ==
    /\ cfg.getCacheKey = "none"
    /\ options.useUpstash = cfg.useUpstash
    /\ options.globalCache = cfg.globalCache
    /\ options.userSpecific = cfg.userSpecific

\* invalidateCache is called: key derivation, then (in the try block) the
\* client is acquired and the delete is issued.
InvStart ==
    /\ inval.pc \in {"idle", "done"}
    /\ env.invalidates
    /\ InFlight < clients
    /\ \E path \in Routes, input \in Inputs, options \in InvalOptions :
         LET config == invalidateConfig(options)
             k == createCacheKey(path, input, mockCtx(options.userId), config)
             rec == [IdleInval EXCEPT !.ctx = Ctx(path, input, options.userId),
                        !.opts = options, !.key = k.s,
                        !.matching = matchingOptions(options)]
         IN  IF k.k = "throw"
             THEN /\ inval' = finishInval(rec, Throw(KeyError))
                  /\ UNCHANGED <<upstashClient, stdClient>>
             ELSE IF config.useUpstash
             THEN /\ IF getUpstashRedisThrows
                     THEN /\ inval' = invalCatch(rec, AcquireError)
                          /\ UNCHANGED upstashClient
                     ELSE /\ inval' = [rec EXCEPT !.pc = "del"]
                          /\ upstashClient' = TRUE
                  /\ UNCHANGED stdClient
             ELSE /\ IF stdClient = "none"
                     THEN /\ stdClient' = "connecting"
                          /\ inval' = [rec EXCEPT !.pc = "connect"]
                     ELSE /\ inval' = [rec EXCEPT !.pc = "del"]
                          /\ UNCHANGED stdClient
                  /\ UNCHANGED upstashClient
    /\ UNCHANGED <<keyVars, factoryVars, serVars, env, cfg, outage, upstashStore, redisStore, calls, clients, started>>

\* whether the store still holds an entry that a middleware call with the
\* invalidation's route, input and caller id has written from a successful op
OwnEntryLeft(store, rec) ==
    \E e \in store :
        /\ e.ok
        /\ e.by.path = rec.ctx.path
        /\ e.by.input = rec.ctx.input
        /\ e.by.caller = rec.ctx.caller

\* the middleware calls (by number) that are between their miss and the
\* reply of their write, on the invalidation's key and backend
MidCalls(rec) ==
    {calls[c].no : c \in {d \in Calls :
                             /\ calls[d].pc \in {"op", "set"}
                             /\ calls[d].key = rec.key
                             /\ cfg.useUpstash = rec.opts.useUpstash}}

\* The reply of `del` arrives; an error is logged and rethrown.
InvDel ==
    /\ inval.pc = "del"
    /\ \E fail \in BackendFails :
         LET store == StoreDel(StoreOf(inval.opts.useUpstash), inval.key)
         IN  IF fail
             THEN /\ inval' = invalCatch(inval, DelError)
                  /\ UNCHANGED <<upstashStore, redisStore>>
             ELSE /\ inval' = finishInval([inval EXCEPT
                                        !.leftOwn = OwnEntryLeft(store, inval),
                                        !.removed =
                                            \E e \in StoreOf(inval.opts.useUpstash) :
                                                e.key = inval.key,
                                        !.midCalls = MidCalls(inval),
                                        !.logs = logTo(@, FALSE, "info",
                                                       "Cache invalidated")],
                                     Return(Undef))
                  /\ IF inval.opts.useUpstash
                     THEN upstashStore' = store /\ UNCHANGED redisStore
                     ELSE redisStore' = store /\ UNCHANGED upstashStore
    /\ UNCHANGED <<keyVars, factoryVars, serVars, env, cfg, outage, upstashClient, stdClient, calls, clients, started>>

(***************************************************************************)
(* RedisConnectionFactory.getStandardRedis: the pending connect() settles. *)
(***************************************************************************)
\* connect() resolves: the caller awaiting connectPromise goes on
ConnectOk ==
    /\ stdClient = "connecting"
    /\ ~outage
    /\ stdClient' = "ready"
    /\ calls' = [c \in Calls |->
                    IF calls[c].pc = "connect"
                    THEN [calls[c] EXCEPT !.pc = "get"] ELSE calls[c]]
    /\ inval' = IF inval.pc = "connect" THEN [inval EXCEPT !.pc = "del"] ELSE inval
    /\ UNCHANGED <<keyVars, factoryVars, serVars, env, cfg, outage, upstashStore, redisStore, upstashClient, clients, started>>

\* connect() rejects: the singleton and connectPromise are reset and the
\* error is rethrown to the caller awaiting connectPromise
ConnectFail ==
    /\ stdClient = "connecting"
    /\ stdClient' = "none"
    /\ calls' = [c \in Calls |->
                    IF calls[c].pc = "connect"
                    THEN catchBlock([calls[c] EXCEPT !.bfail = TRUE])
                    ELSE calls[c]]
    /\ inval' = IF inval.pc = "connect"
                THEN invalCatch(inval, AcquireError)
                ELSE inval
    /\ UNCHANGED <<keyVars, factoryVars, serVars, env, cfg, outage, upstashStore, redisStore, upstashClient, clients, started>>

(***************************************************************************)
(* The backends expire entries that were stored with a time-to-live.       *)
(***************************************************************************)
Expire ==
    /\ \E e \in upstashStore \cup redisStore :
         /\ e.ex # Undef
         /\ upstashStore' = upstashStore \ {e}
         /\ redisStore' = redisStore \ {e}
    /\ UNCHANGED <<keyVars, factoryVars, serVars, env, cfg, outage, upstashClient, stdClient, calls, inval, clients, started>>

Next ==
    \/ \E c \in Calls : Start(c)
    \/ \E c \in Calls : Lookup(c)
    \/ \E c \in Calls : OpSettle(c)
    \/ \E c \in Calls : SetSettle(c)
    \/ \E c \in Calls : FallbackSettle(c)
    \/ InvStart
    \/ InvDel
    \/ ConnectOk
    \/ ConnectFail
    \/ Expire

Spec == Init /\ [][Next]_vars

(***************************************************************************)
(* The middleware over results of other shapes and over a string store     *)
(* that holds an entry another program wrote.                              *)
(***************************************************************************)
\* a stored text that is not JSON
LegacyText == "legacy"

\* the entry another program left under the key of the calls of caller u1
LegacyEntry(config) ==
    [key |-> createCacheKey("p", Obj(<< <<"q", Num(1)>> >>), Str("u1"), config).s,
     v |-> Str(LegacyText), ex |-> Undef, by |-> NoCtx, ok |-> FALSE]

InitValues ==
    /\ KeyIdle
    /\ FactoryIdle
    /\ SerIdle
    /\ cfg \in {validatedConfig([useUpstash |-> u]) : u \in BOOLEAN}
    /\ outage = FALSE
    /\ upstashStore = {}
    /\ \/ /\ redisStore = {}
          /\ env \in {Env({r}, AllCtxs, TRUE) : r \in WideResults}
       \/ /\ ~cfg.useUpstash
          /\ redisStore = {LegacyEntry(cfg)}
          /\ env = Env({OkResult(Obj(<< <<"id", Num(1)>> >>))}, AllCtxs, TRUE)
    /\ upstashClient = FALSE
    /\ stdClient = "none"
    /\ calls = [c \in Calls |-> IdleCall]
    /\ inval = IdleInval
    /\ clients = 1
    /\ started = 0

SpecValues == InitValues /\ [][Next]_vars

(***************************************************************************)
(* The middleware called by two clients at a time.                         *)
(***************************************************************************)
InitOverlap ==
    /\ KeyIdle
    /\ FactoryIdle
    /\ SerIdle
    /\ cfg \in {validatedConfig([useUpstash |-> u]) : u \in BOOLEAN}
    /\ outage = FALSE
    /\ upstashStore = {}
    /\ redisStore = {}
    /\ upstashClient = FALSE
    /\ stdClient = "none"
    /\ calls = [c \in Calls |-> IdleCall]
    /\ inval = IdleInval
    /\ clients = 2
    /\ started = 0
    /\ env = Env({OkResult(d) : d \in Data},
                 {Ctx("p", Obj(<< <<"q", Num(1)>> >>), Str("u1"))}, TRUE)

SpecOverlap == InitOverlap /\ [][Next]_vars

(***************************************************************************)
(* The middleware with the debug flag on and off.                          *)
(***************************************************************************)
InitLog ==
    /\ KeyIdle
    /\ FactoryIdle
    /\ SerIdle
    /\ cfg \in {validatedConfig([useUpstash |-> u, debug |-> d]) :
                    u \in BOOLEAN, d \in BOOLEAN}
    /\ outage \in BOOLEAN
    /\ upstashStore = {}
    /\ redisStore = {}
    /\ upstashClient = FALSE
    /\ stdClient = "none"
    /\ calls = [c \in Calls |-> IdleCall]
    /\ inval = IdleInval
    /\ clients = 1
    /\ started = 0
    /\ env = Env({OkResult(Obj(<< <<"id", Num(1)>> >>))},
                 {Ctx("p", Obj(<< <<"q", Num(1)>> >>), caller) :
                     caller \in {Undef, Str("u1")}},
                 TRUE)

SpecLog == InitLog /\ [][Next]_vars

\* the middleware view at rest, for the behaviours of the other views
CacheIdle ==
    /\ cfg = defaultCacheConfig
    /\ outage = FALSE
    /\ upstashStore = {}
    /\ redisStore = {}
    /\ upstashClient = FALSE
    /\ stdClient = "none"
    /\ calls = [c \in Calls |-> IdleCall]
    /\ inval = IdleInval
    /\ clients = 1
    /\ started = 0
    /\ env = Env(OpResults, AllCtxs, TRUE)

(***************************************************************************)
(* Construction (cacheConfigSchema.parse, validatedConfig) and the key     *)
(* derivation of the constructed middleware, over a wider set of           *)
(* configurations and inputs.                                              *)
(***************************************************************************)
\* a getCacheKey function value
KeyFn(name) == [t |-> "fn", name |-> name]

\* configuration objects handed to createCacheMiddleware, valid and invalid
RawConfigs ==
    LET base == {[globalCache |-> Bool(g), userSpecific |-> Bool(s)] :
                    g \in BOOLEAN, s \in BOOLEAN}
                \cup {[debug |-> Bool(FALSE)]}
        ttls == base \cup
                {r @@ [ttl |-> t] :
                    r \in base,
                    t \in {Undef, Num(30), Num(0), Num(-1), Str("60")}}
        fns  == ttls \cup
                {r @@ [getCacheKey |-> f] :
                    r \in ttls,
                    f \in {KeyFn("custom"), KeyFn("throws"), Str("key")}}
    IN  fns \cup {[globalCache |-> Str("yes")], [userSpecific |-> Num(1)],
                  [useUpstash |-> Null]}

\* a schema that accepts every configuration object
cacheConfigSchema_AcceptAll(raw) == [k |-> "ok", v |-> raw]

\* cacheConfigSchema.parse: ttl is a positive number, the flags are booleans,
\* getCacheKey is a function, every key is optional
cacheConfigSchema(raw) ==
    IF /\ "ttl" \in DOMAIN raw =>
            \/ raw.ttl.t = "undef"
            \/ raw.ttl.t = "num" /\ raw.ttl.n > 0
       /\ \A f \in {"useUpstash", "userSpecific", "globalCache", "debug"}
                    \cap DOMAIN raw : raw[f].t \in {"undef", "bool"}
       /\ "getCacheKey" \in DOMAIN raw => raw.getCacheKey.t \in {"undef", "fn"}
    THEN [k |-> "ok", v |-> raw]
    ELSE [k |-> "throw", v |-> raw]

\* the parsed configuration in the form the middleware reads it: the flags by
\* their truthiness, getCacheKey by the function it names
configOf(parsed) ==
    [f \in DOMAIN parsed |->
        CASE f = "ttl" -> parsed[f]
          [] f = "getCacheKey" ->
                IF parsed[f].t = "fn" THEN parsed[f].name ELSE "none"
          [] OTHER -> Truthy(parsed[f])]

\* createCacheMiddleware(config): throws the schema's error, or returns a
\* middleware closed over validatedConfig
createCacheMiddleware(raw) ==
    LET parsed == cacheConfigSchema(raw)
    IN  IF parsed.k = "throw"
        THEN [k |-> "threw", raw |-> raw, cfg |-> defaultCacheConfig]
        ELSE [k |-> "ok", raw |-> raw, cfg |-> validatedConfig(configOf(parsed.v))]

KeyRoutes == {"p", "r", "global:p", "user:p:u1"}
KeyInputs ==
    {Undef, Null, Num(0), Bool(FALSE), Str(""), Num(1),
     Obj(<< <<"q", Num(1)>> >>), Cyc,
     Obj(<< <<"a", Num(1)>>, <<"b", Num(2)>> >>),
     Obj(<< <<"b", Num(2)>>, <<"a", Num(1)>> >>)}

Construct ==
    /\ built.k = "none"
    /\ \E raw \in RawConfigs : built' = createCacheMiddleware(raw)
    /\ UNCHANGED <<derived, cacheVars, factoryVars, serVars>>

\* a call enters the built middleware and its key is derived
DeriveKey ==
    /\ built.k = "ok"
    /\ \E path \in KeyRoutes, input \in KeyInputs, caller \in Callers :
         derived' = [k |-> "done", ctx |-> Ctx(path, input, caller),
                     key |-> createCacheKey(path, input, caller, built.cfg)]
    /\ UNCHANGED <<built, cacheVars, factoryVars, serVars>>

InitKey == KeyIdle /\ FactoryIdle /\ CacheIdle /\ SerIdle

NextKey == Construct \/ DeriveKey

SpecKey == InitKey /\ [][NextKey]_vars


(***************************************************************************)
(* RedisConnectionFactory: getStandardRedis, getUpstashRedis and           *)
(* closeConnections called by concurrent callers, connect() and quit()     *)
(* settling in between.                                                    *)
(***************************************************************************)
\* closeConnections calls made in one behaviour
MaxCloses == 2

\* the getter call of g returns `res` to its caller
getReturn(rec, res, connState) ==
    [rec EXCEPT !.pc = "done", !.outcome = "return", !.res = res,
                !.connected = (res # 0 /\ connState[res] = "open"),
                !.same = \/ history[rec.kind] \in {0, res}
                         \/ rec.closes # closing.n]

\* the getter call of g rejects
getThrow(rec, error) ==
    [rec EXCEPT !.pc = "done", !.outcome = "throw", !.error = error]

\* the first instance each getter has handed out since the last close
handedOut(h, getters) ==
    [h EXCEPT
        !.standard = IF @ # 0 THEN @
                     ELSE IF \E g \in Getters :
                               /\ getters[g].kind = "standard"
                               /\ getters[g].outcome = "return"
                               /\ getters[g].closes = closing.n
                          THEN getters[CHOOSE g \in Getters :
                                   /\ getters[g].kind = "standard"
                                   /\ getters[g].outcome = "return"
                                   /\ getters[g].closes = closing.n].res
                          ELSE 0,
        !.upstash = IF @ # 0 THEN @
                    ELSE IF \E g \in Getters :
                              /\ getters[g].kind = "upstash"
                              /\ getters[g].outcome = "return"
                              /\ getters[g].closes = closing.n
                         THEN getters[CHOOSE g \in Getters :
                                  /\ getters[g].kind = "upstash"
                                  /\ getters[g].outcome = "return"
                                  /\ getters[g].closes = closing.n].res
                         ELSE 0]

\* a rejection handler that leaves the static fields as they are
connectRejected_KeepsClient(client, promise) ==
    [client |-> client, promise |-> promise]

\* the .catch handler of connect(): standardRedisClient = null,
\* connectPromise = null
connectRejected(client, promise) == [client |-> 0, promise |-> 0]

\* getStandardRedis(redisUrl?) up to its first suspension: an existing client
\* is returned at once; otherwise the url is resolved, a client is created,
\* connect() is started unless a connectPromise is held, and the call awaits
\* connectPromise.
GetStandardStart(g) ==
    /\ gets[g].pc \in {"idle", "done"}
    /\ history.gets < MaxGets
    /\ \E override \in BOOLEAN, envOk \in BOOLEAN :
         LET rec == [IdleGet EXCEPT
                        !.kind = "standard", !.override = override,
                        !.afterFail = history.failed, !.closes = closing.n,
                        !.overlapped = \E o \in Getters : gets[o].pc = "await"]
             id == created + 1
         IN  IF standardRedisClient # 0
             THEN /\ gets' = [gets EXCEPT ![g] =
                                getReturn(rec, standardRedisClient, conn)]
                  /\ UNCHANGED <<standardRedisClient, connectPromise, conn, created>>
             ELSE IF ~override /\ ~envOk
             THEN /\ gets' = [gets EXCEPT ![g] = getThrow(rec, "env")]
                  /\ UNCHANGED <<standardRedisClient, connectPromise, conn, created>>
             ELSE /\ created < MaxClients
                  /\ standardRedisClient' = id
                  /\ created' = id
                  /\ IF connectPromise = 0
                     THEN /\ connectPromise' = id
                          /\ conn' = [conn EXCEPT ![id] = "pending"]
                          /\ gets' = [gets EXCEPT ![g] =
                                 [rec EXCEPT !.pc = "await", !.made = id,
                                             !.attempts = 1, !.awaits = id]]
                     ELSE /\ conn' = [conn EXCEPT ![id] = "new"]
                          /\ gets' = [gets EXCEPT ![g] =
                                 [rec EXCEPT !.pc = "await", !.made = id,
                                             !.awaits = connectPromise]]
                          /\ UNCHANGED connectPromise
    /\ history' = [handedOut(history, gets') EXCEPT
                      !.gets = @ + 1, !.failed = FALSE]
    /\ UNCHANGED <<upstashRedisClient, closing, keyVars, serVars, cacheVars>>

\* connect() of client i resolves: the calls awaiting its promise return
\* this.standardRedisClient
ConnectResolves(i) ==
    /\ conn[i] = "pending"
    /\ conn' = [conn EXCEPT ![i] = "open"]
    /\ gets' = [g \in Getters |->
                   IF gets[g].pc = "await" /\ gets[g].awaits = i
                   THEN getReturn(gets[g], standardRedisClient, conn')
                   ELSE gets[g]]
    /\ history' = handedOut(history, gets')
    /\ UNCHANGED <<standardRedisClient, connectPromise, upstashRedisClient,
                   closing, created, keyVars, serVars, cacheVars>>

\* connect() of client i rejects: the handler resets the static fields and
\* rethrows, so the calls awaiting its promise reject with the error
ConnectRejects(i) ==
    /\ conn[i] = "pending"
    /\ conn' = [conn EXCEPT ![i] = "failed"]
    /\ standardRedisClient' =
           connectRejected(standardRedisClient, connectPromise).client
    /\ connectPromise' =
           connectRejected(standardRedisClient, connectPromise).promise
    /\ gets' = [g \in Getters |->
                   IF gets[g].pc = "await" /\ gets[g].awaits = i
                   THEN getThrow(gets[g], "connect")
                   ELSE gets[g]]
    /\ history' = [history EXCEPT !.failed = TRUE]
    /\ UNCHANGED <<upstashRedisClient, closing, created, keyVars, serVars, cacheVars>>

\* getUpstashRedis(config?): synchronous; the client is created on first use
\* from the override or from the environment
GetUpstash(g) ==
    /\ gets[g].pc \in {"idle", "done"}
    /\ history.gets < MaxGets
    /\ \E override \in BOOLEAN, envOk \in BOOLEAN :
         LET rec == [IdleGet EXCEPT
                        !.kind = "upstash", !.override = override,
                        !.closes = closing.n]
             id == created + 1
         IN  IF upstashRedisClient # 0
             THEN /\ gets' = [gets EXCEPT ![g] =
                                getReturn(rec, upstashRedisClient, conn)]
                  /\ UNCHANGED <<upstashRedisClient, conn, created>>
             ELSE IF ~override /\ ~envOk
             THEN /\ gets' = [gets EXCEPT ![g] = getThrow(rec, "env")]
                  /\ UNCHANGED <<upstashRedisClient, conn, created>>
             ELSE /\ created < MaxClients
                  /\ upstashRedisClient' = id
                  /\ created' = id
                  /\ conn' = [conn EXCEPT ![id] = "http"]
                  /\ gets' = [gets EXCEPT ![g] =
                         getReturn([rec EXCEPT !.made = id], id, conn')]
    /\ history' = [handedOut(history, gets') EXCEPT !.gets = @ + 1]
    /\ UNCHANGED <<standardRedisClient, connectPromise, closing, keyVars, serVars,
                   cacheVars>>

\* closeConnections() up to its first suspension: with a standard client it
\* awaits quit(); without one it resets the other two fields at once
CloseStart ==
    /\ closing.pc \in {"idle", "done"}
    /\ closing.n < MaxCloses
    /\ IF standardRedisClient # 0
       THEN /\ closing' = [closing EXCEPT !.pc = "quit",
                                           !.quits = standardRedisClient,
                                           !.outcome = "none"]
            /\ UNCHANGED <<upstashRedisClient, connectPromise, history>>
       ELSE /\ closing' = [closing EXCEPT !.pc = "done", !.quits = 0,
                                           !.outcome = "return", !.n = @ + 1]
            /\ upstashRedisClient' = 0
            /\ connectPromise' = 0
            /\ history' = [NoHistory EXCEPT !.gets = history.gets]
    /\ UNCHANGED <<standardRedisClient, conn, gets, created, keyVars, serVars, cacheVars>>

\* What a resolved quit() leaves of the client's connection: an open one is
\* closed; closeConnections never awaits connectPromise, so a connect() still
\* pending either ends with the client or settles later on its own
quitLeaves(state) ==
    IF state = "pending" THEN {"pending", "closed"} ELSE {"closed"}

\* quit() settles: on success the three fields are reset; a rejection leaves
\* closeConnections before any reset
CloseQuit ==
    /\ closing.pc = "quit"
    /\ \E ok \in BOOLEAN, after \in quitLeaves(conn[closing.quits]) :
         IF ok
         THEN /\ conn' = [conn EXCEPT ![closing.quits] = after]
              /\ standardRedisClient' = 0
              /\ upstashRedisClient' = 0
              /\ connectPromise' = 0
              /\ closing' = [closing EXCEPT !.pc = "done", !.outcome = "return",
                                             !.n = @ + 1]
              /\ history' = [NoHistory EXCEPT !.gets = history.gets]
         ELSE /\ closing' = [closing EXCEPT !.pc = "done", !.outcome = "throw"]
              /\ UNCHANGED <<conn, standardRedisClient, upstashRedisClient,
                             connectPromise, history>>
    /\ UNCHANGED <<gets, created, keyVars, serVars, cacheVars>>

InitFactory == KeyIdle /\ FactoryIdle /\ CacheIdle /\ SerIdle

NextFactory ==
    \/ \E g \in Getters : GetStandardStart(g)
    \/ \E g \in Getters : GetUpstash(g)
    \/ \E i \in Clients : ConnectResolves(i)
    \/ \E i \in Clients : ConnectRejects(i)
    \/ CloseStart
    \/ CloseQuit

SpecFactory == InitFactory /\ [][NextFactory]_vars

(***************************************************************************)
(* The serialization guard on its own: sanitizeForCache and safeStringify  *)
(* applied to values of every kind.                                        *)
(***************************************************************************)
\* safeStringify calls made on the subject in one behaviour
MaxStringify == 2

SerLeaves ==
    {Undef, Null, Num(1), NaN, Str("a"), Bool(TRUE), DateOf("2024-01-01"),
     Fn, Sym, Inst(<< <<"x", Num(1)>> >>), Inst(<< <<"m", Fn>> >>)}

SerValues ==
    SerLeaves
      \cup {Obj(<< <<"a", x>>, <<"b", y>> >>) : x, y \in SerLeaves}
      \cup {Arr(<<x, y>>) : x, y \in SerLeaves}
      \cup {Obj(<< <<"a", Num(1)>>,
                  <<"n", Obj(<< <<"f", x>>, <<"k", Str("s")>> >>)>> >>) :
                x \in SerLeaves}
      \cup {Obj(<< <<"k", Num(1)>>, <<"list", Arr(<<x, Num(2)>>)>> >>) :
                x \in SerLeaves}
      \cup {Ref(1), Ref(2), Ref(3), Arr(<<Ref(3), Ref(3)>>),
            Obj(<< <<"a", Fn>>, <<"c", Ref(1)>> >>),
            Obj(<< <<"c", Ref(1)>>, <<"a", Fn>> >>),
            Inst(<< <<"c", Ref(1)>> >>)}

\* sanitizeForCache(subject) is called
Sanitize ==
    /\ sanitized = NotRun
    /\ sanitized' = sanitizeForCache(subject)
    /\ UNCHANGED <<subject, stringified, serializable, cacheVars, keyVars,
                   factoryVars>>

\* safeStringify(subject) is called
SafeStringify ==
    /\ Len(stringified) < MaxStringify
    /\ stringified' = Append(stringified, safeStringify(subject))
    /\ UNCHANGED <<subject, sanitized, serializable, cacheVars, keyVars,
                   factoryVars>>

\* isSerializable(subject) is called
IsSerializable ==
    /\ serializable = "notrun"
    /\ serializable' = isSerializable(subject)
    /\ UNCHANGED <<subject, sanitized, stringified, cacheVars, keyVars,
                   factoryVars>>

InitSer ==
    /\ KeyIdle
    /\ FactoryIdle
    /\ CacheIdle
    /\ subject \in SerValues
    /\ sanitized = NotRun
    /\ stringified = <<>>
    /\ serializable = "notrun"

NextSer == Sanitize \/ SafeStringify \/ IsSerializable

SpecSer == InitSer /\ [][NextSer]_vars

(***************************************************************************)
(* Properties.                                                             *)
(***************************************************************************)
Stores == upstashStore \cup redisStore
Done(c) == calls[c].pc = "done"
KeyThrows(c) ==
    createCacheKey(calls[c].ctx.path, calls[c].ctx.input, calls[c].ctx.caller,
                   cfg).k = "throw"
LastOp(c) == calls[c].ops[Len(calls[c].ops)]

\* C1: a call whose lookup finds the entry that an earlier call with the same
\* route, input and caller stored from a successful op (not invalidated or
\* expired since) is served that stored result and does not invoke op, on the
\* native store and on the string store.
C1_SecondCallServedFromStore ==
    \A c \in Calls :
        calls[c].sawOwn =>
            /\ Done(c)
            /\ calls[c].hit
            /\ calls[c].opCalls = 0
            /\ calls[c].outcome \in
                  {Return(sanitizeForCache(OkResult(d))) : d \in Data}

C1_Witness ==
    \E c \in Calls :
        /\ Done(c) /\ calls[c].sawOwn /\ calls[c].hit
        /\ ~cfg.useUpstash
        /\ started = 2

\* C2: a failure-shaped result of op is returned untouched and nothing is
\* written for it; the stores hold only results of successful op invocations.
C2_FailureNeverStored ==
    /\ \A e \in Stores : e.ok
    /\ \A c \in Calls :
          (Done(c) /\ calls[c].ops = <<Return(FailResult)>>) =>
              ~calls[c].wrote /\ calls[c].outcome = Return(FailResult)

\* C3: after a call whose op failed, the next call with the same context
\* invokes op again; once a call's op succeeded, the next identical call is
\* served the successful result from the cache without invoking op.
C3_FailureThenSuccess ==
    \A c \in Calls :
        /\ (calls[c].afterFail /\ ~calls[c].bfail
              /\ calls[c].pc \notin {"idle", "connect", "get"})
               => calls[c].opCalls >= 1
        /\ calls[c].sawOwn =>
               calls[c].hit /\ calls[c].opCalls = 0 /\ ResultOk(calls[c].outcome.v)

\* C4: when op throws on a miss, with the backend working, op is invoked once
\* in that call, the error it threw is what the caller gets, and nothing is
\* stored.
C4_OpThrowNotRetried ==
    \A c \in Calls :
        (Done(c) /\ ~calls[c].bfail /\ calls[c].ops # <<>>
            /\ calls[c].ops[1].k = "throw") =>
                /\ calls[c].opCalls = 1
                /\ calls[c].outcome = calls[c].ops[1]
                /\ ~calls[c].wrote

\* C5: during a backend outage every call (whose key was derived) returns
\* the outcome of op, raises no backend error, runs op exactly once, and the
\* stores stay empty.
C5_OutageResilience ==
    outage =>
        /\ Stores = {}
        /\ \A c \in Calls :
              (Done(c) /\ ~KeyThrows(c)) =>
                  /\ calls[c].opCalls = 1
                  /\ calls[c].ops # <<>>
                  /\ calls[c].outcome = calls[c].ops[1]
                  /\ calls[c].outcome.v.t # "err" \/ calls[c].outcome.v.src = "op"

C5_Witness ==
    \E c \in Calls :
        /\ outage /\ Done(c) /\ calls[c].bfail
        /\ calls[c].outcome \in {Return(OkResult(d)) : d \in Data}
        /\ started = 2

\* C6: a call in which a backend step (connect, lookup, or the write after a
\* successful op) threw ends with the outcome of the op invocation of its
\* fallback, never with the backend's error.
C6_BackendErrorNotPropagated ==
    \A c \in Calls :
        (Done(c) /\ calls[c].bfail) =>
            /\ calls[c].ops # <<>>
            /\ calls[c].outcome = LastOp(c)
            /\ ~(calls[c].outcome.k = "throw" /\ calls[c].outcome.v.src = "backend")

C6_Witness ==
    \E c \in Calls :
        /\ Done(c) /\ calls[c].bfail /\ ~outage
        /\ Len(calls[c].ops) = 2
        /\ calls[c].ops[1].k = "return"

\* C7: a call whose key derivation throws still invokes op and ends with the
\* outcome of op.
C7_KeyErrorFallsBack ==
    \A c \in Calls :
        (Done(c) /\ KeyThrows(c)) =>
            /\ calls[c].opCalls = 1
            /\ calls[c].ops # <<>>
            /\ calls[c].outcome = calls[c].ops[1]

\* C8: an invalidation that succeeds, called with the middleware's backend
\* and scope flags (no custom key function), leaves no entry that a call with
\* its route, input and caller id has stored.
C8_InvalidateRoundTrip ==
    (inval.pc = "done" /\ inval.matching /\ inval.outcome.k = "return")
        => ~inval.leftOwn

\* C9: when acquiring the client or the delete fails, invalidateCache throws
\* that error to its caller.
C9_InvalidateRethrows ==
    (inval.pc = "done" /\ inval.bfail) => inval.outcome = Throw(inval.raised)

C9_Witness ==
    inval.pc = "done" /\ inval.bfail /\ inval.raised = DelError /\ ~outage

\* the caller id a context stands for: an absent identity is "anonymous"
C10_Identity(caller) == IF caller = Undef THEN Str("anonymous") ELSE caller

C10_Scoped ==
    cfg.userSpecific /\ ~cfg.globalCache /\ cfg.getCacheKey = "none"

\* C10 as stated: under userSpecific without globalCache a call is never
\* served an entry stored by a call with a different caller identity.
C10_NeverServedOtherIdentity ==
    C10_Scoped =>
        \A c \in Calls : calls[c].hit => calls[c].hitBy.caller = calls[c].ctx.caller

\* C10 amended: under userSpecific without globalCache, calls with the same
\* route and input whose caller ids differ (an absent identity counting as
\* "anonymous") have different keys, and a call is served only entries stored
\* for its own caller id.
C10_ServedOnlyOwnIdentity ==
    C10_Scoped =>
        \A c \in Calls :
            /\ calls[c].hit =>
                  C10_Identity(calls[c].hitBy.caller) = C10_Identity(calls[c].ctx.caller)
            /\ \A e \in Stores :
                  (/\ calls[c].key # ""
                   /\ e.by.path = calls[c].ctx.path
                   /\ e.by.input = calls[c].ctx.input
                   /\ C10_Identity(e.by.caller) # C10_Identity(calls[c].ctx.caller))
                      => e.key # calls[c].key

C10_Witness ==
    /\ C10_Scoped
    /\ \E c \in Calls :
          /\ calls[c].pc = "op"
          /\ ~calls[c].bfail
          /\ \E e \in StoreOf(cfg.useUpstash) :
                /\ e.ok
                /\ e.by.path = calls[c].ctx.path
                /\ e.by.input = calls[c].ctx.input
                /\ e.by.caller # calls[c].ctx.caller

\* C11: with globalCache (userSpecific set or not, no custom key function)
\* calls with the same route and input derive the same key whatever the
\* caller, and a call whose lookup finds the entry that any caller stored for
\* its route and input from a successful op is served it without invoking op.
C11_GlobalSharedAcrossIdentities ==
    (cfg.globalCache /\ cfg.getCacheKey = "none") =>
        \A c \in Calls :
            /\ calls[c].sawAny =>
                  Done(c) /\ calls[c].hit /\ calls[c].opCalls = 0
            /\ calls[c].key # "" =>
                  \A other \in Callers :
                      createCacheKey(calls[c].ctx.path, calls[c].ctx.input,
                                     other, cfg) = KStr(calls[c].key)

C11_Witness ==
    /\ cfg.globalCache /\ cfg.userSpecific /\ cfg.getCacheKey = "none"
    /\ \E c \in Calls :
          /\ Done(c) /\ calls[c].hit /\ calls[c].opCalls = 0
          /\ calls[c].hitOk
          /\ calls[c].hitBy.caller # calls[c].ctx.caller

\* C12: with a custom key function the derived key is exactly what the
\* function returns for (route, input), for every setting of globalCache and
\* userSpecific and for every caller, so all callers derive the same key.
C12_CustomKeyVerbatim ==
    (derived.k = "done" /\ built.cfg.getCacheKey # "none") =>
        /\ derived.key = customCacheKey(built.cfg.getCacheKey,
                                        derived.ctx.path, derived.ctx.input)
        /\ \A other \in Callers :
              createCacheKey(derived.ctx.path, derived.ctx.input, other,
                             built.cfg) = derived.key

C12_Witness ==
    /\ derived.k = "done"
    /\ built.cfg.getCacheKey = "custom"
    /\ built.cfg.globalCache /\ built.cfg.userSpecific
    /\ derived.ctx.caller = Str("u1")
    /\ derived.key = KStr("custom:p:{\"q\":1}")

\* the key of the default scheme under a given prefix, with inputString the
\* empty string for a falsy input and JSON.stringify(input) otherwise
C13_Scheme(prefix, ctx, config) ==
    LET j == IF Truthy(ctx.input) THEN JSONStringify(ctx.input) ELSE JStr("")
        inputString == IF j.k = "undef" THEN "undefined" ELSE j.s
        callerId == IF ctx.caller \in {Undef, Null} THEN "anonymous"
                    ELSE ctx.caller.s
    IN  IF j.k = "throw" THEN KThrow
        ELSE IF config.globalCache
        THEN KStr(prefix \o ":global:" \o ctx.path \o ":" \o inputString)
        ELSE IF config.userSpecific
        THEN KStr(prefix \o ":user:" \o ctx.path \o ":" \o callerId \o ":"
                  \o inputString)
        ELSE KStr(prefix \o ":" \o ctx.path \o ":" \o inputString)

\* C13 as stated: without a custom key function the key follows the scheme
\* global / user / plain under the prefix "cache".
C13_KeySchemeCachePrefix ==
    (derived.k = "done" /\ built.cfg.getCacheKey = "none") =>
        derived.key = C13_Scheme("cache", derived.ctx, built.cfg)

\* C13 amended: without a custom key function the key follows the scheme
\* global / user / plain under the prefix "trpc", the caller id being
\* "anonymous" for a context without identity.
C13_KeySchemeTrpcPrefix ==
    (derived.k = "done" /\ built.cfg.getCacheKey = "none") =>
        derived.key = C13_Scheme("trpc", derived.ctx, built.cfg)

C13_Witness ==
    /\ derived.k = "done"
    /\ built.cfg.getCacheKey = "none"
    /\ ~built.cfg.globalCache /\ built.cfg.userSpecific
    /\ derived.ctx.caller = Undef
    /\ derived.key = KStr("trpc:user:r:anonymous:{\"q\":1}")

\* C14: without a custom key function, a call whose input is present (null,
\* 0, false and "" included) never derives the key of the call with the same
\* route and caller and no input.
C14_PresentInputSerialized ==
    (/\ derived.k = "done"
     /\ built.cfg.getCacheKey = "none"
     /\ derived.ctx.input # Undef) =>
        derived.key # createCacheKey(derived.ctx.path, Undef,
                                     derived.ctx.caller, built.cfg)

\* what the schema admits: ttl absent, undefined or a positive number, the
\* flags absent, undefined or booleans, getCacheKey absent, undefined or a
\* function
C18_Valid(raw) ==
    /\ "ttl" \in DOMAIN raw =>
          raw.ttl = Undef \/ (raw.ttl.t = "num" /\ raw.ttl.n > 0)
    /\ \A f \in {"useUpstash", "userSpecific", "globalCache", "debug"} :
          f \in DOMAIN raw => raw[f].t \in {"undef", "bool"}
    /\ "getCacheKey" \in DOMAIN raw => raw.getCacheKey.t \in {"undef", "fn"}

\* C18: createCacheMiddleware throws exactly for the invalid configurations
\* and then returns no middleware; only a built middleware takes calls, its
\* configuration is valid, and its calls end with a key or a key-derivation
\* error, never with a configuration error.
C18_InvalidConfigFailsConstruction ==
    /\ built.k = "threw" => ~C18_Valid(built.raw)
    /\ built.k = "ok" =>
          /\ C18_Valid(built.raw)
          /\ built.cfg.ttl = Undef
                \/ (built.cfg.ttl.t = "num" /\ built.cfg.ttl.n > 0)
    /\ derived.k = "done" =>
          built.k = "ok" /\ derived.key.k \in {"str", "throw"}

C18_Witness ==
    /\ built.k = "threw"
    /\ "ttl" \in DOMAIN built.raw
    /\ built.raw.ttl = Num(0)
    /\ derived.k = "none"

\* the configurations that createCacheMiddleware may have been given
C19_Given == {u \in UserConfigs : validatedConfig(u) = cfg}

\* C19 as stated: an entry is written with the expiry of the given ttl, and
\* without expiry when the given configuration carries no ttl.
C19_NoTtlMeansPermanent ==
    \A e \in Stores, u \in C19_Given :
        e.ex = (IF "ttl" \in DOMAIN u THEN u.ttl ELSE Undef)

\* C19 amended: an entry is written with the expiry of the given ttl, with
\* the default of 60 seconds when the given configuration has no ttl key, and
\* without expiry only when it carries ttl: undefined.
C19_NoTtlMeansDefault ==
    \A e \in Stores, u \in C19_Given :
        e.ex = (IF "ttl" \in DOMAIN u THEN u.ttl ELSE Num(60))

C19_Witness ==
    /\ \E u \in C19_Given : "ttl" \notin DOMAIN u
    /\ \E c \in Calls : Done(c) /\ calls[c].wrote /\ ResultOk(calls[c].res)
    /\ \E e \in redisStore : e.ex = Num(60) /\ e.ok

\* C20: a call that missed, ran op once with success and wrote its entry
\* returns the result of op as op gave it; what it wrote is the sanitized
\* projection of that result (its JSON text on the string store), which is
\* serializable and is the result itself when the result is serializable.
C20_ReturnsOriginalStoresSanitized ==
    \A c \in Calls :
        (Done(c) /\ calls[c].wrote /\ ResultOk(calls[c].ops[1].v)) =>
            LET result == calls[c].ops[1].v
                stored == IF cfg.useUpstash THEN calls[c].toWrite
                          ELSE JSONParse(calls[c].toWrite.s).v
            IN  /\ calls[c].opCalls = 1
                /\ calls[c].outcome = Return(result)
                /\ isSerializable(stored) = SerTrue
                /\ isSerializable(result) = SerTrue => stored = result
                /\ cfg.useUpstash => stored = sanitizeForCache(result)
                /\ ~cfg.useUpstash =>
                      calls[c].toWrite
                          = Str(JSONStringify(sanitizeForCache(result)).s)

C20_Witness ==
    \E c \in Calls :
        /\ Done(c) /\ calls[c].wrote /\ cfg.useUpstash
        /\ calls[c].outcome = Return(OkResult(Obj(<< <<"id", Num(1)>>,
                                                      <<"format", Fn>> >>)))
        /\ calls[c].toWrite # calls[c].outcome.v
        /\ \E e \in upstashStore : e.v = calls[c].toWrite

\* C15: while no closeConnections has run, at most one connect() is pending
\* at a time, every getStandardRedis call that overlaps a pending connection
\* starts no attempt of its own, and every getStandardRedis call that returns
\* hands out a client whose connect() has completed.
C15_OverlappingCallersAwaitConnection ==
    closing = IdleClose =>
        /\ Cardinality({i \in Clients : conn[i] = "pending"}) <= 1
        /\ \A g \in Getters :
              (gets[g].kind = "standard" /\ gets[g].overlapped) =>
                  gets[g].attempts = 0
        /\ \A g \in Getters :
              (gets[g].kind = "standard" /\ gets[g].outcome = "return") =>
                  gets[g].connected

\* C16: after connect() of the standard client has failed and until the next
\* getStandardRedis call, standardRedisClient and connectPromise are null;
\* the calls that awaited the failed connection reject with its error; and the
\* next getStandardRedis call (whose url resolves) creates a new client and
\* starts a connection attempt of its own.
C16_ConnectFailureResetsSingleton ==
    /\ history.failed => standardRedisClient = 0 /\ connectPromise = 0
    /\ \A g \in Getters :
          (gets[g].kind = "standard" /\ gets[g].awaits # 0
              /\ conn[gets[g].awaits] = "failed") =>
                /\ gets[g].pc = "done"
                /\ gets[g].outcome = "throw"
                /\ gets[g].error = "connect"
    /\ \A g \in Getters :
          (gets[g].kind = "standard" /\ gets[g].afterFail
              /\ gets[g].error # "env") =>
                /\ gets[g].made # 0
                /\ gets[g].attempts = 1
                /\ gets[g].awaits = gets[g].made

C16_Witness ==
    \E g \in Getters, i \in Clients :
        /\ conn[i] = "failed"
        /\ gets[g].kind = "standard" /\ gets[g].afterFail
        /\ gets[g].outcome = "return"
        /\ gets[g].res = gets[g].made /\ gets[g].res > i
        /\ gets[g].connected
        /\ closing = IdleClose

\* C17: a getUpstashRedis (getStandardRedis) call that returns, with or
\* without an override, returns the instance that the first returning call
\* of its kind since the last closeConnections handed out.
C17_SingletonPerVariant ==
    \A g \in Getters : gets[g].outcome = "return" => gets[g].same

\* the number of fields or elements a container holds
Width(v) == IF v.t = "arr" THEN Len(v.e) ELSE IF v.t \in {"obj", "inst"} THEN Len(v.f) ELSE 0
\* the i-th field value or element of a container
Child(v, i) == IF v.t = "arr" THEN v.e[i] ELSE v.f[i][2]

\* the value holds an object that is reachable from itself
RECURSIVE HasCycleIn(_, _)
HasCycleIn(v, stack) ==
    IF v.t = "ref"
    THEN v.id \in stack \/ HasCycleIn(Heap[v.id], stack \cup {v.id})
    ELSE \E i \in 1..Width(v) : HasCycleIn(Child(v, i), stack)
HasCycle(v) == HasCycleIn(v, {})

RECURSIVE HasFnField(_)
HasFnField(v) ==
    \/ v.t = "obj" /\ \E i \in 1..Len(v.f) : v.f[i][2] = Fn
    \/ v.t # "ref" /\ \E i \in 1..Width(v) : HasFnField(Child(v, i))

\* `clean` is `orig` with every function blanked and every serializable part
\* left as it was
RECURSIVE FnBlanked(_, _)
FnBlanked(orig, clean) ==
    IF orig = Fn THEN clean = Null
    ELSE IF isSerializable(orig) = SerTrue THEN clean = orig
    ELSE IF orig.t = "arr"
    THEN /\ clean.t = "arr"
         /\ Len(clean.e) = Len(orig.e)
         /\ \A i \in 1..Len(orig.e) : FnBlanked(orig.e[i], clean.e[i])
    ELSE IF orig.t \in {"obj", "inst"}
    THEN /\ clean.t = "obj"
         /\ Len(clean.f) = Len(orig.f)
         /\ \A i \in 1..Len(orig.f) :
                /\ clean.f[i][1] = orig.f[i][1]
                /\ FnBlanked(orig.f[i][2], clean.f[i][2])
    ELSE TRUE

\* C22: sanitizing a record that has a function-valued field gives a record
\* in which that field is null and every serializable sibling field, at every
\* nesting depth, keeps its value.
C22_FunctionFieldBlankedSiblingsKept ==
    (sanitized # NotRun /\ subject.t = "obj" /\ HasFnField(subject)
        /\ ~HasCycle(subject)) =>
        /\ sanitized.t = "obj"
        /\ FnBlanked(subject, sanitized)

C22_Witness ==
    /\ subject = Obj(<< <<"a", Num(1)>>,
                        <<"n", Obj(<< <<"f", Fn>>, <<"k", Str("s")>> >>)>> >>)
    /\ sanitized = Obj(<< <<"a", Num(1)>>,
                          <<"n", Obj(<< <<"f", Null>>, <<"k", Str("s")>> >>)>> >>)

\* the text safeStringify gives for an object that holds itself under `self`
SelfText == "{\"self\":" \o CircularReference \o "}"

\* C24: safeStringify of a value that holds a cycle returns a string, in
\* which the second visit of an object is the sentinel, and never null; a
\* later call on the same value returns what the first call returned.
C24_CycleGivesSentinelPerCall ==
    \A i \in 1..Len(stringified) :
        /\ stringified[i] = stringified[1]
        /\ HasCycle(subject) =>
              /\ stringified[i].t = "str"
              /\ subject \in {Ref(1), Ref(2)} => stringified[i] = Str(SelfText)
              /\ subject \in {Obj(<< <<"a", Fn>>, <<"c", Ref(1)>> >>),
                              Obj(<< <<"c", Ref(1)>>, <<"a", Fn>> >>),
                              Inst(<< <<"c", Ref(1)>> >>)} =>
                    stringified[i] = Str("{\"c\":" \o SelfText \o "}")

C24_Witness ==
    /\ subject = Ref(2)
    /\ Len(stringified) = MaxStringify
    /\ stringified[MaxStringify] = Str("{\"self\":\"[Circular Reference]\"}")

\* the record with its fields listed in the opposite order
Reordered(v) == Obj([i \in 1..Len(v.f) |-> v.f[Len(v.f) + 1 - i]])

\* C28: the default key derivation does not canonicalize field order: an
\* input with two fields and the same input with the fields listed the other
\* way round derive different keys.
C28_FieldOrderChangesKey ==
    (/\ derived.k = "done"
     /\ built.cfg.getCacheKey = "none"
     /\ derived.ctx.input.t = "obj"
     /\ Len(derived.ctx.input.f) > 1) =>
        /\ derived.key.k = "str"
        /\ derived.key # createCacheKey(derived.ctx.path,
                                        Reordered(derived.ctx.input),
                                        derived.ctx.caller, built.cfg)

C28_Witness ==
    /\ derived.k = "done"
    /\ built.cfg.getCacheKey = "none"
    /\ ~built.cfg.globalCache /\ built.cfg.userSpecific
    /\ derived.ctx.input = Obj(<< <<"b", Num(2)>>, <<"a", Num(1)>> >>)
    /\ derived.key = KStr("trpc:user:p:u1:{\"b\":2,\"a\":1}")

\* the value is built only from numbers, strings and booleans in nested
\* records and arrays
RECURSIVE PrimitiveOnly(_)
PrimitiveOnly(v) ==
    \/ v.t \in {"num", "nan", "str", "bool"}
    \/ /\ v.t \in {"obj", "arr"}
       /\ \A i \in 1..Width(v) : PrimitiveOnly(Child(v, i))

\* the value holds a number that is not finite
RECURSIVE HasNaN(_)
HasNaN(v) ==
    \/ v = NaN
    \/ v.t \in {"obj", "arr"} /\ \E i \in 1..Width(v) : HasNaN(Child(v, i))

\* C23: on the string store, when op's results are built only from
\* primitives, the hit on an entry a call wrote returns a value equal to the
\* result op returned.
C23_PrimitiveRoundTrip ==
    \A c \in Calls :
        (/\ Done(c) /\ calls[c].hit
         /\ ~cfg.useUpstash
         /\ calls[c].hitBy # NoCtx
         /\ \A r \in env.results : PrimitiveOnly(r)) =>
            \E r \in env.results : calls[c].outcome = Return(r)

\* the round trip of results whose numbers are all finite
C23_FiniteRoundTrip ==
    \A c \in Calls :
        (/\ Done(c) /\ calls[c].hit
         /\ ~cfg.useUpstash
         /\ calls[c].hitBy # NoCtx
         /\ \A r \in env.results : PrimitiveOnly(r) /\ ~HasNaN(r)) =>
            \E r \in env.results : calls[c].outcome = Return(r)

\* C26: on the string store, a lookup that finds a text that is not JSON is a
\* hit whose value is that text, as getCached reads it: op is not invoked and
\* the call returns the text.
C26_LegacyTextIsHit ==
    \A c \in Calls :
        (/\ ~cfg.useUpstash
         /\ calls[c].found.t = "str"
         /\ JSONParse(calls[c].found.s).k = "throw") =>
            /\ calls[c].opCalls = 0
            /\ Done(c) =>
                  /\ calls[c].hit
                  /\ calls[c].outcome =
                        Return(getCached(FALSE, calls[c].found, FALSE))

\* the write of the value cannot be made: the guard or the serialization of
\* the guarded value throws
Unstorable(v) ==
    \/ sanitizeForCache(v) = StackOverflow
    \/ ~cfg.useUpstash /\ JSONStringify(sanitizeForCache(v)).k # "str"

\* C27: when op's successful result cannot be serialized for the store, the
\* call still returns that result: op is invoked once, no error is raised and
\* nothing is written.
C27_UnstorableResultReturned ==
    \A c \in Calls :
        (/\ Done(c) /\ ~calls[c].bfail
         /\ calls[c].ops # <<>>
         /\ calls[c].ops[1].k = "return"
         /\ ResultOk(calls[c].ops[1].v)
         /\ Unstorable(calls[c].ops[1].v)) =>
            /\ calls[c].opCalls = 1
            /\ calls[c].outcome = calls[c].ops[1]
            /\ ~calls[c].wrote

\* C30: on the native store, a lookup that finds a value other than null and
\* undefined (0, false and "" included) is a hit: op is not invoked and the
\* call returns that value.
C30_NativeFalsyIsHit ==
    \A c \in Calls :
        (cfg.useUpstash /\ calls[c].found \notin {Null, Undef}) =>
            /\ calls[c].opCalls = 0
            /\ Done(c) => calls[c].hit /\ calls[c].outcome = Return(calls[c].found)

\* C25: calls with the same key are not deduplicated.  A call that returns
\* without a hit has invoked op itself, and when two calls have both written
\* under one key, the entry in the store (if it has not been deleted or
\* expired since) is the one written last.
C25_NotDeduplicatedLastWriteWins ==
    /\ \A c \in Calls :
          (Done(c) /\ calls[c].outcome.k = "return" /\ ~calls[c].hit) =>
              calls[c].opCalls >= 1
    /\ \A c, d \in Calls :
          (/\ c # d /\ Done(c) /\ Done(d)
           /\ calls[c].wrote /\ calls[d].wrote
           /\ calls[c].key = calls[d].key
           /\ calls[d].wroteAt > calls[c].wroteAt) =>
              \A e \in StoreOf(cfg.useUpstash) :
                  e.key = calls[d].key => e.v = calls[d].toWrite

\* two overlapping calls with one key have both missed, both invoked op and
\* both written, and the store holds the later write
C25_Witness ==
    \E c, d \in Calls :
        /\ c # d /\ Done(c) /\ Done(d)
        /\ calls[c].concurrent \/ calls[d].concurrent
        /\ calls[c].key = calls[d].key
        /\ ~calls[c].hit /\ ~calls[d].hit
        /\ calls[c].opCalls = 1 /\ calls[d].opCalls = 1
        /\ calls[c].wrote /\ calls[d].wrote
        /\ calls[d].wroteAt > calls[c].wroteAt
        /\ calls[c].toWrite # calls[d].toWrite
        /\ \E e \in StoreOf(cfg.useUpstash) :
              e.key = calls[d].key /\ e.v = calls[d].toWrite

\* the log entries of a level
Entries(logs, levels) == {e \in logs : e.level \in levels}

\* C29: an info or warn entry (cache hit, miss, set) is emitted only when the
\* debug flag is true, and a call in which the backend raised an error has
\* emitted an error entry, whatever the debug flag is.
C29_InfoGatedErrorAlways ==
    /\ \A c \in Calls :
          /\ Entries(calls[c].logs, {"info", "warn"}) # {} => cfg.debug
          /\ calls[c].bfail =>
                [level |-> "error", message |-> "Redis cache error"]
                    \in calls[c].logs
    /\ Entries(inval.logs, {"info", "warn"}) # {} => cfg.debug
    /\ inval.bfail =>
          [level |-> "error", message |-> "Cache invalidation error"]
              \in inval.logs

\* with debug off, a call that missed and whose write failed has logged the
\* error and nothing else
C29_Witness ==
    \E c \in Calls :
        /\ ~cfg.debug
        /\ Done(c) /\ calls[c].bfail
        /\ calls[c].opCalls = 2
        /\ calls[c].logs = {[level |-> "error", message |-> "Redis cache error"]}

\* with debug on, a call that missed and wrote has logged the miss and the set
C29_DebugWitness ==
    \E c \in Calls :
        /\ cfg.debug
        /\ Done(c) /\ calls[c].wrote
        /\ calls[c].logs = {[level |-> "info", message |-> "Cache miss"],
                            [level |-> "info", message |-> "Cache set"]}

\* the value is built from plain records and arrays only (no class instance)
RECURSIVE PlainIn(_, _)
PlainIn(v, stack) ==
    IF v.t = "ref"
    THEN v.id \in stack \/ PlainIn(Heap[v.id], stack \cup {v.id})
    ELSE /\ v.t # "inst"
         /\ \A i \in 1..Width(v) : PlainIn(Child(v, i), stack)

\* C32: isSerializable, called on a plain record or array that holds a
\* reference to itself, directly or through other records, answers false.
C32_CycleAnswersFalse ==
    (/\ serializable # "notrun"
     /\ subject.t \in {"ref", "obj", "arr"}
     /\ PlainIn(subject, {})
     /\ HasCycle(subject)) =>
        serializable = SerFalse

\* the scope mode a configuration selects for the default key
ScopeMode(config) ==
    IF config.globalCache THEN "global"
    ELSE IF config.userSpecific THEN "user" ELSE "unscoped"

\* C39: under userSpecific caching a call with no caller identity and a call
\* whose caller id is "anonymous" derive one key, and every other pair of
\* distinct caller ids with the same route and input derives distinct keys.
C39_AnonymousSharedOthersDistinct ==
    (/\ derived.k = "done"
     /\ derived.key.k = "str"
     /\ built.cfg.getCacheKey = "none"
     /\ ScopeMode(built.cfg) = "user") =>
        \A other \in Callers \ {derived.ctx.caller} :
            LET otherKey == createCacheKey(derived.ctx.path, derived.ctx.input,
                                           other, built.cfg)
            IN  IF {other, derived.ctx.caller} = {Undef, Str("anonymous")}
                THEN otherKey = derived.key
                ELSE otherKey # derived.key

C39_Witness ==
    /\ derived.k = "done"
    /\ built.cfg.getCacheKey = "none"
    /\ ScopeMode(built.cfg) = "user"
    /\ derived.ctx.caller = Str("anonymous")
    /\ derived.key = createCacheKey("p", Obj(<< <<"q", Num(1)>> >>), Undef,
                                    built.cfg)
    /\ derived.key = KStr("trpc:user:p:anonymous:{\"q\":1}")

\* C40: the default key derivation is injective across scope modes, routes and
\* caller ids: a call that differs from another in the scope mode, in the
\* route, or (under user-specific caching) in the caller id derives a
\* different key for the same input, also when a route contains ':' or the
\* words 'global' or 'user'.
C40_KeyInjective ==
    (/\ derived.k = "done"
     /\ derived.key.k = "str"
     /\ built.cfg.getCacheKey = "none") =>
        \A g \in BOOLEAN, u \in BOOLEAN, path \in KeyRoutes, caller \in Callers :
            LET config == [built.cfg EXCEPT !.globalCache = g, !.userSpecific = u]
                differs ==
                    \/ ScopeMode(config) # ScopeMode(built.cfg)
                    \/ path # derived.ctx.path
                    \/ /\ ScopeMode(config) = "user"
                       /\ userIdOf(caller) # userIdOf(derived.ctx.caller)
            IN  differs =>
                    createCacheKey(path, derived.ctx.input, caller, config)
                        # derived.key

\* C38: in every interleaving of getStandardRedis calls, connect outcomes and
\* closeConnections calls, a getStandardRedis call that returns hands out a
\* client (never null), and the rejection of an older client's connect()
\* leaves a client installed by a later call in place
C38_ResolvedClientNeverNull ==
    /\ [](\A g \in Getters :
             (gets[g].kind = "standard" /\ gets[g].outcome = "return")
                 => gets[g].res # 0)
    /\ [][\A i \in Clients :
             (conn[i] = "pending" /\ conn'[i] = "failed"
                  /\ standardRedisClient \notin {0, i})
                 => standardRedisClient' = standardRedisClient]_vars

\* an exception was raised inside the cache sequence of the call: the client
\* could not be acquired or a backend call failed, the stored text could not
\* be parsed, the first next() threw, or its result could not be stored
RaisedInSequence(rec) ==
    \/ rec.bfail
    \/ ~cfg.useUpstash /\ Truthy(rec.found) /\ JSONParse(rec.found.s).k = "throw"
    \/ rec.ops # <<>> /\ (rec.ops[1].k = "throw" \/ Unstorable(rec.ops[1].v))

\* C37: a call invokes op at most twice; the second invocation follows an
\* exception raised inside the cache sequence, its outcome is the call's, and
\* it writes nothing to either store.
C37_SecondOpOnlyAfterException ==
    /\ [](\A c \in Calls :
            /\ calls[c].opCalls <= 2
            /\ Len(calls[c].ops) <= calls[c].opCalls
            /\ calls[c].opCalls = 2 => RaisedInSequence(calls[c])
            /\ (Done(c) /\ calls[c].bfail)
                   => /\ calls[c].ops # <<>>
                      /\ Len(calls[c].ops) = calls[c].opCalls
                      /\ calls[c].outcome = LastOp(c)
                      /\ ~calls[c].wrote
            /\ (Done(c) /\ calls[c].opCalls = 2)
                   => /\ Len(calls[c].ops) = 2
                      /\ calls[c].outcome = calls[c].ops[2]
                      /\ ~calls[c].wrote)
    /\ [][\A c \in Calls :
            (calls[c].pc = "fallback" /\ calls'[c].pc = "done")
                => UNCHANGED <<upstashStore, redisStore>>]_vars

\* a call whose first op returned a result that could not be stored has
\* returned the outcome of its second op
C37_Witness ==
    \E c \in Calls :
        /\ Done(c)
        /\ calls[c].opCalls = 2
        /\ ~calls[c].bfail
        /\ calls[c].ops[1].k = "return"
        /\ Unstorable(calls[c].ops[1].v)
        /\ calls[c].outcome = calls[c].ops[2]
        /\ ~calls[c].wrote

\* the keys under which a store holds an entry
KeysOf(store) == {e.key : e \in store}

\* C33: the middleware never deletes: no step of a middleware call removes a
\* key from either store, so keys leave a store only by invalidateCache or by
\* expiry in the backend.
C33_InterceptNeverDeletes ==
    [][(calls' # calls)
          => /\ KeysOf(upstashStore) \subseteq KeysOf(upstashStore')
             /\ KeysOf(redisStore) \subseteq KeysOf(redisStore')]_vars

\* a call has written its entry and the entry an earlier call stored under
\* another key is still there
C33_Witness ==
    \E c \in Calls :
        /\ Done(c) /\ calls[c].wrote
        /\ calls[c].key \in KeysOf(StoreOf(cfg.useUpstash))
        /\ \E e \in StoreOf(cfg.useUpstash) : e.key # calls[c].key

\* C34: a hit leaves both stores as they were: the step that serves the cached
\* data changes no entry (neither its value nor its time-to-live), and a call
\* served from the cache has invoked no op and issued no write.
C34_HitLeavesStoreUnchanged ==
    /\ [](\A c \in Calls :
            calls[c].hit => /\ ~calls[c].wrote
                            /\ calls[c].wroteAt = 0
                            /\ calls[c].opCalls = 0)
    /\ [][\A c \in Calls :
            (~calls[c].hit /\ calls'[c].hit)
                => UNCHANGED <<upstashStore, redisStore>>]_vars

\* a call was served an entry stored with a time-to-live, and the entry is
\* still stored with that time-to-live
C34_Witness ==
    \E c \in Calls :
        /\ Done(c) /\ calls[c].hit
        /\ \E e \in StoreOf(cfg.useUpstash) :
             /\ e.key = calls[c].key
             /\ e.ex # Undef
             /\ e.ex = cfg.ttl

\* C35: invalidateCache changes at most one entry: the reply of `del` removes
\* the entry stored under the derived key from the selected store and nothing
\* else, adds no entry, leaves the other store and every middleware call as
\* they were, and returns without an error unless the backend failed; no other
\* step of invalidateCache changes a store.
C35_InvalidateTouchesOneKey ==
    [][/\ (inval.pc = "del" /\ inval'.pc = "done")
            => LET sel == StoreOf(inval.opts.useUpstash)
                   selAfter == IF inval.opts.useUpstash THEN upstashStore'
                               ELSE redisStore'
               IN  /\ selAfter \subseteq sel
                   /\ \A e \in sel \ selAfter : e.key = inval.key
                   /\ Cardinality(sel \ selAfter) <= 1
                   /\ IF inval.opts.useUpstash
                      THEN redisStore' = redisStore
                      ELSE upstashStore' = upstashStore
                   /\ calls' = calls
                   /\ ~inval'.bfail
                         => /\ inval'.outcome = Return(Undef)
                            /\ inval.key \notin KeysOf(selAfter)
       /\ (inval.pc \in {"idle", "done", "connect"} /\ inval' # inval)
            => UNCHANGED <<upstashStore, redisStore>>]_vars

\* an invalidation has removed an entry and returned, and an entry stored
\* under another key is still there
C35_Witness ==
    /\ inval.pc = "done"
    /\ inval.outcome = Return(Undef)
    /\ inval.removed
    /\ Stores # {}

\* the call was between its miss and its write when the last invalidation,
\* of its key, returned
Overtaken(c) ==
    /\ inval.pc = "done"
    /\ inval.outcome = Return(Undef)
    /\ calls[c].no \in inval.midCalls

\* C36: an invalidation of key K that returns while a call for K is between
\* its miss and its write does not stop that call: the invalidation leaves the
\* call as it was, the call's write stores under K what the call had computed,
\* and unless something fails the call ends having written.
C36_WriteAfterInvalidate ==
    /\ [](\A c \in Calls :
            (/\ Overtaken(c) /\ Done(c) /\ ~calls[c].bfail
             /\ calls[c].ops # <<>>
             /\ calls[c].ops[1].k = "return"
             /\ ~Unstorable(calls[c].ops[1].v))
                => calls[c].wrote)
    /\ [][/\ (inval.pc = "del" /\ inval'.pc = "done") => calls' = calls
          /\ \A c \in Calls :
               (/\ Overtaken(c)
                /\ calls[c].pc = "set" /\ calls'[c].wrote)
                   => \E e \in (IF cfg.useUpstash THEN upstashStore'
                                ELSE redisStore') :
                        /\ e.key = calls[c].key
                        /\ e.v = calls[c].toWrite
                        /\ e.by = calls[c].ctx]_vars

\* an invalidation removed the entry of K and returned while a call for K was
\* waiting for its op; the call has since written, and K is stored again
C36_Witness ==
    \E c \in Calls :
        /\ Overtaken(c)
        /\ inval.removed
        /\ Done(c) /\ calls[c].wrote
        /\ \E e \in StoreOf(cfg.useUpstash) :
             e.key = calls[c].key /\ e.v = calls[c].toWrite

\* JavaScript's falsy values, listed one by one
Falsy(v) ==
    \/ v.t \in {"undef", "null", "nan"}
    \/ v = Num(0)
    \/ v = Str("")
    \/ v = Bool(FALSE)

====
